---- MODULE Spec2Model ----
(***************************************************************************)
(* State-machine model of the wind-turbine mock backend.                   *)
(*                                                                         *)
(*  - src/src/routes/streaming.js : the SSE fan-out (subscribe handler,    *)
(*    sendPowerData cycles, close/error cleanup, status query).            *)
(*    The batch-ingest endpoint of the same file.                          *)
(*  - src/streaming-service/simulator.js : the simulator's weather model,  *)
(*    its reading generators and its driver loop (runSimulation).          *)
(*  - src/src/services/dataGenerator.js : the streaming and seed reading   *)
(*    generator.                                                           *)
(*                                                                         *)
(* JavaScript runs each handler to its next await without interruption, so *)
(* one action is the code between two suspension points.                   *)
(***************************************************************************)
EXTENDS Integers, Sequences, FiniteSets, Bags, TLC

VARIABLES
    nextReq,             \* number of the next subscribe request to arrive
    query,               \* query[r]: the query parameters request r arrived with
    res,                 \* res[r]: the HTTP response object of request r
    scope,               \* scope[r]: the handler's closure (connectionId, turbineFilter, intervalMs)
    log,                 \* log[r]: the handler's synchronous effects, in program order
    sseConnections,      \* the module-level Map connectionId -> connection info
    timers,              \* timers[r]: the setInterval handle created by request r
    cycles,              \* the sendPowerData invocations that are suspended at an await
    started,             \* started[r]: sendPowerData invocations begun for request r
    ticks,               \* timer ticks fired so far (all subscriptions)
    PowerOutput,         \* the PowerOutput table, a bag of rows
    WindTurbine,         \* the WindTurbine table: id -> [active]
    listening,           \* requests whose 'close'/'error' listeners are registered
    closeFired,          \* requests whose 'close' event has been emitted
    errorFired,          \* requests whose 'error' event has been emitted
    unhandledRejections, \* requests whose async handler rejected
    faults,              \* store operations that have failed so far
    weatherEvent,        \* simulator.js: the active weather event or Null
    weatherEventDuration,\* simulator.js: cycles the active event has left
    lastFactor,          \* value returned by the last simulateWeatherEvents call
    wxTicks,             \* simulateWeatherEvents calls made so far
    wxSpawns,            \* weather events started so far
    wxSpawned,           \* the event started last, or Null
    wxSince,             \* simulateWeatherEvents calls since that start, the starting call included
    reading,             \* the reading a generator returned last, with the inputs it was made from
    generated,           \* readings the generators have been asked for one by one
    OUTLIER_CHANCE,      \* simulator.js: the configured outlier chance, in percent
    STREAMING_INTERVAL,  \* simulator.js: seconds between cycles, from the environment
    simTimers,           \* pending setTimeout(runSimulation, delay) timers, a bag of delays
    runs,                \* the runSimulation invocations that are suspended at an await
    simCycles,           \* runSimulation invocations begun so far
    simLog,              \* what each invocation not yet superseded did, by its number
    exited,              \* the simulator process has called process.exit
    ingest,              \* the batch-ingest request: its body, the handler's position, its response
    WorkOrder,           \* the work_orders table: the rows in the order of their creation
    WorkOrderComment,    \* the work_order_comments table: comments per work order
    woRequests,          \* the work-order handlers that are suspended at an await
    woResponse,          \* the response a work-order handler sent last
    woBegun,             \* work-order requests that have arrived so far
    database,            \* the database file as the start-up scripts see it
    scriptRuns,          \* runs of the start script and of the seeder so far
    lastScript           \* what the last such run was started with and did

streamVars == <<nextReq, query, res, scope, log, sseConnections, timers, cycles, started,
                ticks, PowerOutput, WindTurbine, listening, closeFired, errorFired,
                unhandledRejections, faults>>
weatherVars == <<weatherEvent, weatherEventDuration, lastFactor, wxTicks, wxSpawns,
                 wxSpawned, wxSince>>
genVars == <<reading, generated, OUTLIER_CHANCE>>
simVars == <<STREAMING_INTERVAL, simTimers, runs, simCycles, simLog, exited>>
ingestVars == <<ingest>>
workOrderVars == <<WorkOrder, WorkOrderComment, woRequests, woResponse, woBegun>>
seedVars == <<database, scriptRuns, lastScript>>
vars == <<streamVars, weatherVars, genVars, simVars, ingestVars, workOrderVars, seedVars>>

(***************************************************************************)
(* Bounds of the model.                                                    *)
(***************************************************************************)
MaxRequests == 2      \* subscribe requests that arrive
MaxTicks == 1         \* timer ticks that fire, over all subscriptions
NumTurbines == 2      \* turbines of the small fleet
MaxFaults == 1        \* store operations (findAll, create) that fail
FleetExtra == 1       \* turbines the large fleet has beyond the lookup limit
MaxWxTicks == 12      \* weather ticks
MaxReadings == 2      \* readings generated one by one
MaxCycles == 2        \* simulator cycles that start
MaxBatchLen == 3      \* entries of a batch-ingest request
MaxWoRequests == 4    \* work-order requests that arrive
MaxWorkOrders == 1    \* work orders that are created
MaxScriptRuns == 3    \* runs of the start script and of the seeder
MaxUserRows == 1      \* rows written through the API between two runs

(***************************************************************************)
(* Program constants.                                                      *)
(***************************************************************************)
DEFAULT_LIMIT == 25
MAX_LIMIT == 100
MIN_LIMIT == 1
DefaultInterval == 10
MsPerSecond == 1000
MinIntervalSeconds == 1
MaxIntervalSeconds == 300
DefaultOutlierChance == 5
BATCH_SIZE == 20
FetchLimit == 100
StartupDelayMs == 5000
RetryDelayMs == 30000
DefaultCapacityKW == 2500
SeedTurbines == 150

Null == [kind |-> "null"]
Requests == 1..MaxRequests

Min(a, b) == IF a < b THEN a ELSE b
Max(a, b) == IF a > b THEN a ELSE b

(***************************************************************************)
(* Query-string values.  A parameter is absent (undefined) or a string.    *)
(* The string of windTurbineIds is kept as its comma-separated fields,     *)
(* each field <<pad, id>>: pad = 1 when the field carries surrounding      *)
(* white space, id = 0 when it carries no other text.  The empty string is *)
(* the single field <<0, 0>>.                                              *)
(* The string of interval is a decimal numeral (int, with or without a     *)
(* fractional part) or some non-numeric text.                              *)
(***************************************************************************)
Undefined == [kind |-> "undefined"]
Str(fields) == [kind |-> "string", fields |-> fields]
Num(n) == [kind |-> "numeral", int |-> n, frac |-> FALSE]
Dec(n) == [kind |-> "numeral", int |-> n, frac |-> TRUE]
Text == [kind |-> "text"]

\* JavaScript truthiness of a query value: undefined and "" are falsy.
Truthy(v) == v.kind # "undefined" /\ ~(v.kind = "string" /\ v.fields = << <<0, 0>> >>)

\* String.prototype.trim on one field: the white space goes, the text stays.
Trim(f) == <<0, f[2]>>

\* parseInt: the integer prefix of a numeral, NaN for anything else.
NaN == [nan |-> TRUE, val |-> 0]
ParseInt(v) == IF v.kind = "numeral" THEN [nan |-> FALSE, val |-> v.int] ELSE NaN

\* windTurbineIds.split(',').map(id => id.trim()).filter(id => id)
ParseTurbineFilter(v) ==
    LET trimmed == [i \in 1..Len(v.fields) |-> Trim(v.fields[i])]
        kept == SelectSeq(trimmed, LAMBDA f : f # <<0, 0>>)
    IN  [i \in 1..Len(kept) |-> kept[i][2]]

\* validateLimit(limit, defaultLimit): parseInt(limit) || default, clamped.
validateLimit(limit) ==
    LET parsedLimit == IF limit = 0 THEN DEFAULT_LIMIT ELSE limit
    IN  Min(MAX_LIMIT, Max(MIN_LIMIT, parsedLimit))

\* The delay setInterval runs with: parseInt(interval) * 1000, and 1 ms when
\* that is NaN, below 1 or above 2^31 - 1.
IntervalMs(interval) ==
    LET p == ParseInt(interval)
    IN  IF p.nan THEN NaN ELSE [nan |-> FALSE, val |-> p.val * MsPerSecond]
TimerDelay(ms) ==
    IF ~ms.nan /\ ms.val >= 1 /\ ms.val <= 2147483647 THEN ms.val ELSE 1

(***************************************************************************)
(* The HTTP response object of one request.                                *)
(*   head   : status code stored by writeHead / status(), 0 while none     *)
(*   body   : "none", or the error name of a JSON body                     *)
(*   ended  : the response was finished by json() / end()                  *)
(*   events : the SSE events written with res.write, in order              *)
(*   threw  : a call on the response threw ERR_HTTP_HEADERS_SENT           *)
(***************************************************************************)
NewResponse == [head |-> 0, body |-> "none", ended |-> FALSE, events |-> <<>>,
                threw |-> FALSE]

\* res.status(code).json({error: name, ...})
StatusJson(rs, code, name) == [rs EXCEPT !.head = code, !.body = name, !.ended = TRUE]

\* res.writeHead(code, headers): throws once the header has been stored.
WriteHead(rs, code) ==
    IF rs.head # 0 THEN [rs EXCEPT !.threw = TRUE] ELSE [rs EXCEPT !.head = code]

\* res.end(JSON.stringify({error: name, ...}))
End(rs, name) == [rs EXCEPT !.body = name, !.ended = TRUE]

\* res.write of one complete SSE event (the event: line and the data: line).
Write(rs, ev) == [rs EXCEPT !.events = Append(@, ev)]

ConnectedEvent(interval, turbineFilter) ==
    [type |-> "connected", interval |-> ParseInt(interval),
     turbineFilter |-> turbineFilter, turbineCount |-> Len(turbineFilter)]

\* cycle and matched are not part of the payload: they record which cycle wrote
\* the event and which turbines its lookup matched before the limit.
PowerOutputEvent(cy, powerOutputs) ==
    [type |-> "power-output", turbineCount |-> Len(powerOutputs),
     powerOutputs |-> powerOutputs, cycle |-> cy.n, matched |-> cy.matched]

ErrorEvent(cy) == [type |-> "error", cycle |-> cy.n]

(***************************************************************************)
(* Map operations on sseConnections, timers.                               *)
(***************************************************************************)
MapSet(m, k, v) == [x \in DOMAIN m \cup {k} |-> IF x = k THEN v ELSE m[x]]
MapDelete(m, k) == [x \in DOMAIN m \ {k} |-> m[x]]

NoTimer == [armed |-> FALSE, delay |-> 0]
\* setInterval(sendPowerData, ms)
SetInterval(ms) == [armed |-> TRUE, delay |-> TimerDelay(ms)]
\* clearInterval(intervalId)
ClearInterval(t) == [t EXCEPT !.armed = FALSE]

Range(s) == {s[i] : i \in 1..Len(s)}

\* The elements of a set of integers in ascending order.
SortedSeq(S) ==
    [i \in 1..Cardinality(S) |-> CHOOSE x \in S : Cardinality({y \in S : y < x}) = i - 1]

\* The subsets of S that leave out exactly k elements.
RECURSIVE Dropping(_, _)
Dropping(S, k) ==
    IF k = 0 THEN {S}
    ELSE IF S = {} THEN {}
    ELSE LET x == CHOOSE y \in S : \A z \in S : y <= z
         IN  Dropping(S \ {x}, k - 1)
             \cup {T \cup {x} : T \in Dropping(S \ {x}, k)}

(***************************************************************************)
(* WindTurbine.findAll({where: {active: true, id: {[Op.in]: filter}},      *)
(* limit}): the rows that match, and the result sets the limit allows (the *)
(* query has no ORDER BY, so which rows a binding limit keeps is the       *)
(* store's choice).                                                        *)
(***************************************************************************)
Matching(turbineFilter) ==
    {t \in DOMAIN WindTurbine : WindTurbine[t].active /\ t \in Range(turbineFilter)}

FindAllResults(turbineFilter, limit) ==
    LET m == Matching(turbineFilter)
    IN  IF Cardinality(m) <= limit THEN {m} ELSE Dropping(m, Cardinality(m) - limit)

(***************************************************************************)
(* sendPowerData, streaming.js:67-113.  An invocation suspended at an      *)
(* await is a record of cycles:                                            *)
(*   conn, n       : the subscription, and the invocation's number in it   *)
(*   pc            : "findAll" (line 75) or "create" (line 88)             *)
(*   turbines, i   : the lookup's result and the turbine being persisted   *)
(*   powerOutputs  : the readings pushed so far (line 90)                  *)
(*   matched       : the turbines the lookup matched before its limit      *)
(***************************************************************************)
NewCycle(c, n) ==
    [conn |-> c, n |-> n, pc |-> "findAll", turbines |-> <<>>, i |-> 0,
     powerOutputs |-> <<>>, matched |-> {}]

CyclesOf(c) == {cy \in cycles : cy.conn = c}

\* The row PowerOutput.create stores; conn and cycle record who stored it.
Row(cy, t) == [windTurbineId |-> t, conn |-> cy.conn, cycle |-> cy.n]

\* A catch block that gives the subscription up: it cancels the timer and
\* removes the entry.
CatchAndUnsubscribe(cy) ==
    /\ res' = [res EXCEPT ![cy.conn] = Write(@, ErrorEvent(cy))]
    /\ timers' = [timers EXCEPT ![cy.conn] = ClearInterval(@)]
    /\ sseConnections' = MapDelete(sseConnections, cy.conn)
    /\ UNCHANGED unhandledRejections

\* A catch block that first sends what the cycle had gathered.
CatchAndPushPartial(cy) ==
    /\ res' = [res EXCEPT ![cy.conn] =
                  Write(Write(@, PowerOutputEvent(cy, cy.powerOutputs)), ErrorEvent(cy))]
    /\ UNCHANGED <<timers, sseConnections, unhandledRejections>>

\* The catch block, lines 108-112: the error event is written, nothing else.
Catch(cy) ==
    /\ res' = [res EXCEPT ![cy.conn] = Write(@, ErrorEvent(cy))]
    /\ UNCHANGED <<timers, sseConnections, unhandledRejections>>

\* Lines 100-106: the aggregated event is written.
Push(cy, powerOutputs) ==
    /\ res' = [res EXCEPT ![cy.conn] = Write(@, PowerOutputEvent(cy, powerOutputs))]
    /\ UNCHANGED <<timers, sseConnections, unhandledRejections>>

\* A call of sendPowerData: it runs to the await of findAll (line 75).
StartCycle(c) ==
    /\ cycles' = cycles \cup {NewCycle(c, started[c] + 1)}
    /\ started' = [started EXCEPT ![c] = @ + 1]

\* The await of findAll settles: rejected (catch), or resolved with the rows.
\* With no rows the loop is skipped and the event is written at once;
\* otherwise the first reading is generated and its create awaited.
FindAllDone(cy, storeFails) ==
    /\ cy \in cycles /\ cy.pc = "findAll"
    /\ \/ /\ storeFails /\ faults < MaxFaults
          /\ faults' = faults + 1
          /\ Catch(cy)
          /\ cycles' = cycles \ {cy}
       \/ \E S \in FindAllResults(scope[cy.conn].turbineFilter, validateLimit(DEFAULT_LIMIT)) :
            LET cy2 == [cy EXCEPT !.pc = "create", !.turbines = SortedSeq(S), !.i = 1,
                                  !.matched = Matching(scope[cy.conn].turbineFilter)]
            IN  /\ UNCHANGED faults
                /\ IF S = {}
                   THEN /\ Push(cy2, <<>>)
                        /\ cycles' = cycles \ {cy}
                   ELSE /\ cycles' = (cycles \ {cy}) \cup {cy2}
                        /\ UNCHANGED <<res, timers, sseConnections, unhandledRejections>>
    /\ UNCHANGED <<nextReq, query, scope, log, started, ticks, PowerOutput, WindTurbine,
                   listening, closeFired, errorFired, weatherVars, genVars, simVars, ingestVars, workOrderVars, seedVars>>

\* The await of PowerOutput.create settles: rejected (catch), or the row is
\* stored and the reading pushed; after the last turbine the event is written.
CreateDone(cy, storeFails) ==
    /\ cy \in cycles /\ cy.pc = "create"
    /\ \/ /\ storeFails /\ faults < MaxFaults
          /\ faults' = faults + 1
          /\ Catch(cy)
          /\ cycles' = cycles \ {cy}
          /\ UNCHANGED PowerOutput
       \/ LET t == cy.turbines[cy.i]
              powerOutputs == Append(cy.powerOutputs, t)
          IN  /\ UNCHANGED faults
              /\ PowerOutput' = PowerOutput (+) SetToBag({Row(cy, t)})
              /\ IF cy.i = Len(cy.turbines)
                 THEN /\ Push(cy, powerOutputs)
                      /\ cycles' = cycles \ {cy}
                 ELSE /\ cycles' = (cycles \ {cy})
                            \cup {[cy EXCEPT !.i = @ + 1, !.powerOutputs = powerOutputs]}
                      /\ UNCHANGED <<res, timers, sseConnections, unhandledRejections>>
    /\ UNCHANGED <<nextReq, query, scope, log, started, ticks, WindTurbine,
                   listening, closeFired, errorFired, weatherVars, genVars, simVars, ingestVars, workOrderVars, seedVars>>

\* The interval timer of subscription c fires: sendPowerData is called.
Tick(c) ==
    /\ timers[c].armed
    /\ ticks < MaxTicks
    /\ ticks' = ticks + 1
    /\ StartCycle(c)
    /\ UNCHANGED <<nextReq, query, res, scope, log, sseConnections, timers, PowerOutput,
                   WindTurbine, listening, closeFired, errorFired,
                   unhandledRejections, faults, weatherVars, genVars, simVars, ingestVars, workOrderVars, seedVars>>

(***************************************************************************)
(* GET /power-output, streaming.js:17-154.  The handler runs without       *)
(* suspension: everything it does is one step.  The query is taken after   *)
(* normalizeQueryParams has restored the parameter names.                  *)
(***************************************************************************)

\* An accepted subscription that leaves the first cycle to the first timer tick.
AcceptWithoutInitialCycle(r, interval, turbineFilter, rs) ==
    /\ res' = [res EXCEPT ![r] = Write(rs, ConnectedEvent(interval, turbineFilter))]
    /\ scope' = [scope EXCEPT ![r] = [connectionId |-> r, turbineFilter |-> turbineFilter,
                                      intervalMs |-> IntervalMs(interval)]]
    /\ timers' = [timers EXCEPT ![r] = SetInterval(IntervalMs(interval))]
    /\ sseConnections' = MapSet(sseConnections, r,
                                [intervalId |-> r, turbineFilter |-> turbineFilter])
    /\ listening' = listening \cup {r}
    /\ log' = [log EXCEPT ![r] = <<"connected", "setInterval", "sseConnections.set",
                                   "req.on">>]
    /\ UNCHANGED <<cycles, started, unhandledRejections>>

\* Lines 53-153, the accepted subscription: the connected event, the
\* immediate sendPowerData call, the timer, the map entry, the listeners.
AcceptSubscription(r, interval, turbineFilter, rs) ==
    /\ res' = [res EXCEPT ![r] = Write(rs, ConnectedEvent(interval, turbineFilter))]
    /\ scope' = [scope EXCEPT ![r] = [connectionId |-> r, turbineFilter |-> turbineFilter,
                                      intervalMs |-> IntervalMs(interval)]]
    /\ StartCycle(r)
    /\ timers' = [timers EXCEPT ![r] = SetInterval(IntervalMs(interval))]
    /\ sseConnections' = MapSet(sseConnections, r,
                                [intervalId |-> r, turbineFilter |-> turbineFilter])
    /\ listening' = listening \cup {r}
    /\ log' = [log EXCEPT ![r] = <<"connected", "sendPowerData", "setInterval",
                                   "sseConnections.set", "req.on">>]
    /\ UNCHANGED unhandledRejections

\* Lines 19-51: the parameter checks.
SubscribeHandler(r, q) ==
    LET windTurbineIds == q.windTurbineIds
        interval == IF q.interval.kind = "undefined" THEN Num(DefaultInterval)
                    ELSE q.interval
    IN  IF ~Truthy(windTurbineIds)
        THEN /\ res' = [res EXCEPT ![r] = StatusJson(@, 400, "Validation Error")]
             /\ UNCHANGED <<scope, log, sseConnections, timers, cycles, started,
                            listening, unhandledRejections>>
        ELSE LET rs1 == WriteHead(res[r], 200)
                 turbineFilter == ParseTurbineFilter(windTurbineIds)
             IN  IF Len(turbineFilter) = 0
                 THEN LET rs2 == WriteHead(rs1, 400)
                      IN  /\ res' = [res EXCEPT ![r] = IF rs2.threw THEN rs2
                                                       ELSE End(rs2, "Validation Error")]
                          /\ unhandledRejections' =
                                IF rs2.threw THEN unhandledRejections \cup {r}
                                ELSE unhandledRejections
                          /\ UNCHANGED <<scope, log, sseConnections, timers, cycles,
                                         started, listening>>
                 ELSE AcceptSubscription(r, interval, turbineFilter, rs1)

Subscribe(idsInputs, intervalInputs, maxRequests) ==
    /\ nextReq <= maxRequests
    /\ \E ids \in idsInputs, iv \in intervalInputs :
          /\ query' = [query EXCEPT ![nextReq] = [windTurbineIds |-> ids, interval |-> iv]]
          /\ SubscribeHandler(nextReq, [windTurbineIds |-> ids, interval |-> iv])
    /\ nextReq' = nextReq + 1
    /\ UNCHANGED <<ticks, PowerOutput, WindTurbine, closeFired, errorFired,
                   faults, weatherVars, genVars, simVars, ingestVars, workOrderVars, seedVars>>

\* A close handler that cancels every timer and empties the map.
OnCloseAll(c) ==
    /\ timers' = [d \in DOMAIN timers |-> ClearInterval(timers[d])]
    /\ sseConnections' = <<>>

\* req.on('close'), lines 131-137.
OnClose(c) ==
    /\ timers' = [timers EXCEPT ![c] = ClearInterval(@)]
    /\ sseConnections' = MapDelete(sseConnections, c)

\* An error handler that cancels the timer and leaves the entry in the map.
OnErrorKeepEntry(c) ==
    /\ timers' = [timers EXCEPT ![c] = ClearInterval(@)]
    /\ UNCHANGED sseConnections

\* req.on('error'), lines 139-153.
OnError(c) ==
    /\ timers' = [timers EXCEPT ![c] = ClearInterval(@)]
    /\ sseConnections' = MapDelete(sseConnections, c)

\* The connection of subscriber c closes: 'close' is emitted once.
Close(c) ==
    /\ c \in listening /\ c \notin closeFired
    /\ OnClose(c)
    /\ closeFired' = closeFired \cup {c}
    /\ UNCHANGED <<nextReq, query, res, scope, log, cycles, started, ticks, PowerOutput,
                   WindTurbine, listening, errorFired, unhandledRejections,
                   faults, weatherVars, genVars, simVars, ingestVars, workOrderVars, seedVars>>

\* The connection of subscriber c fails: 'error' is emitted, before 'close'.
Error(c) ==
    /\ c \in listening /\ c \notin errorFired /\ c \notin closeFired
    /\ OnError(c)
    /\ errorFired' = errorFired \cup {c}
    /\ UNCHANGED <<nextReq, query, res, scope, log, cycles, started, ticks, PowerOutput,
                   WindTurbine, listening, closeFired, unhandledRejections,
                   faults, weatherVars, genVars, simVars, ingestVars, workOrderVars, seedVars>>

\* The body GET /status answers with, lines 160-173 (startTime and uptime are
\* clock readings, left out).  The query changes no state.
StatusReport ==
    LET connections == {[connectionId |-> id,
                         turbineFilter |-> sseConnections[id].turbineFilter,
                         turbineCount |-> Len(sseConnections[id].turbineFilter)] :
                        id \in DOMAIN sseConnections}
    IN  [activeConnections |-> Cardinality(connections), connections |-> connections]


\* A turbine is activated or deactivated through the turbine API.
SetActive(t, b) ==
    /\ t \in DOMAIN WindTurbine /\ WindTurbine[t].active # b
    /\ WindTurbine' = [WindTurbine EXCEPT ![t].active = b]
    /\ UNCHANGED <<nextReq, query, res, scope, log, sseConnections, timers, cycles, started,
                   ticks, PowerOutput, listening, closeFired, errorFired,
                   unhandledRejections, faults, weatherVars, genVars, simVars, ingestVars, workOrderVars, seedVars>>

(***************************************************************************)
(* The simulator's weather model, simulator.js:103-132.  Factors are in    *)
(* tenths (0.2 is 2, 1.5 is 15, 1.0 is 10).                                *)
(***************************************************************************)
events ==
    << [type |-> "storm", factor |-> 2, duration |-> 5],
       [type |-> "high_pressure", factor |-> 15, duration |-> 10],
       [type |-> "maintenance_window", factor |-> 0, duration |-> 3] >>

\* simulateWeatherEvents as a function of the module state w it starts from:
\* the state it leaves, the factor it returns, and whether it started an event.
\* spawn is Math.random() < 0.05, pick is Math.floor(Math.random() * 3) + 1.
simulateWeatherEventsLingering(w, spawn, pick) ==
    LET starts == w.weatherEvent = Null /\ spawn
        ev == IF starts THEN events[pick] ELSE w.weatherEvent
        dur == IF starts THEN events[pick].duration ELSE w.weatherEventDuration
    IN  IF ev # Null
        THEN [weatherEvent |-> IF dur - 1 < 0 THEN Null ELSE ev,
              weatherEventDuration |-> dur - 1,
              factor |-> ev.factor, starts |-> starts]
        ELSE [weatherEvent |-> ev, weatherEventDuration |-> dur,
              factor |-> 10, starts |-> starts]

\* A weather tick that reads the factor after the counter was decremented and
\* the event cleared, so the tick that ends an event returns 1.0.
simulateWeatherEventsPostDecrement(w, spawn, pick) ==
    LET starts == w.weatherEvent = Null /\ spawn
        ev == IF starts THEN events[pick] ELSE w.weatherEvent
        dur == IF starts THEN events[pick].duration ELSE w.weatherEventDuration
        left == IF ev # Null /\ dur - 1 <= 0 THEN Null ELSE ev
    IN  IF ev # Null
        THEN [weatherEvent |-> left,
              weatherEventDuration |-> dur - 1,
              factor |-> IF left # Null THEN left.factor ELSE 10, starts |-> starts]
        ELSE [weatherEvent |-> ev, weatherEventDuration |-> dur,
              factor |-> 10, starts |-> starts]

simulateWeatherEventsFrom(w, spawn, pick) ==
    LET starts == w.weatherEvent = Null /\ spawn
        ev == IF starts THEN events[pick] ELSE w.weatherEvent
        dur == IF starts THEN events[pick].duration ELSE w.weatherEventDuration
    IN  IF ev # Null
        THEN [weatherEvent |-> IF dur - 1 <= 0 THEN Null ELSE ev,
              weatherEventDuration |-> dur - 1,
              factor |-> ev.factor, starts |-> starts]
        ELSE [weatherEvent |-> ev, weatherEventDuration |-> dur,
              factor |-> 10, starts |-> starts]

\* The module-level weather state.
Weather == [weatherEvent |-> weatherEvent, weatherEventDuration |-> weatherEventDuration]

\* A weather tick that draws for a new event without looking at the active one.
simulateWeatherEventsUnguarded(spawn, pick) ==
    LET starts == spawn
        ev == IF starts THEN events[pick] ELSE weatherEvent
        dur == IF starts THEN events[pick].duration ELSE weatherEventDuration
    IN  /\ wxSpawns' = IF starts THEN wxSpawns + 1 ELSE wxSpawns
        /\ wxSpawned' = IF starts THEN events[pick] ELSE wxSpawned
        /\ wxSince' = IF starts THEN 1 ELSE IF wxSpawned = Null THEN 0 ELSE wxSince + 1
        /\ IF ev # Null
           THEN /\ lastFactor' = ev.factor
                /\ weatherEventDuration' = dur - 1
                /\ weatherEvent' = IF dur - 1 <= 0 THEN Null ELSE ev
           ELSE /\ lastFactor' = 10
                /\ weatherEventDuration' = dur
                /\ weatherEvent' = ev

\* One call of simulateWeatherEvents on the module state.
simulateWeatherEvents(spawn, pick) ==
    LET r == simulateWeatherEventsFrom(Weather, spawn, pick)
    IN  /\ weatherEvent' = r.weatherEvent
        /\ weatherEventDuration' = r.weatherEventDuration
        /\ lastFactor' = r.factor
        /\ wxSpawns' = IF r.starts THEN wxSpawns + 1 ELSE wxSpawns
        /\ wxSpawned' = IF r.starts THEN events[pick] ELSE wxSpawned
        /\ wxSince' = IF r.starts THEN 1 ELSE IF wxSpawned = Null THEN 0 ELSE wxSince + 1

WeatherTick ==
    /\ wxTicks < MaxWxTicks
    /\ wxTicks' = wxTicks + 1
    /\ \E spawn \in BOOLEAN, pick \in 1..Len(events) : simulateWeatherEvents(spawn, pick)
    /\ UNCHANGED <<ingestVars, workOrderVars, seedVars, streamVars, genVars, simVars>>

(***************************************************************************)
(* The reading generators: simulator.js:91-101 and 134-211, and            *)
(* dataGenerator.js:340-374.  Power is kept in hundredths of a kW, the     *)
(* unit Math.round(powerKW * 100) / 100 leaves; the factors are exact      *)
(* rationals over a common denominator.  A Math.random() value is one of   *)
(* a few points of [0, 1): quarters (0 and 3/4) for the wind factors and   *)
(* hundredths for the outlier magnitudes and the outlier draw.             *)
(***************************************************************************)
\* Math.round(n / d) for d > 0: the nearest integer, a half going up.
MathRound(n, d) == (2 * n + d) \div (2 * d)

\* Math.round(R * P / unit), split so that no product leaves 32 bits.
RoundProduct(R, P, unit) == R * (P \div unit) + MathRound(R * (P % unit), unit)

\* getTimeBasedWindFactor, in tenths.
getTimeBasedWindFactor(hour) ==
    IF hour >= 22 \/ hour <= 6 THEN 12
    ELSE IF hour >= 10 /\ hour <= 16 THEN 6
    ELSE 9

outlierTypes ==
    << "negative_reading", "zero_reading", "extremely_high", "minor_negative",
       "unrealistic_spike" >>

\* The outlier generators with the spike drawn from 2x to 7x rated capacity.
OutlierPowerWide(type, R, k) ==
    CASE type = "negative_reading" -> MathRound(-(k * R), 2)
      [] type = "zero_reading" -> 0
      [] type = "extremely_high" -> R * (200 + 5 * k)
      [] type = "minor_negative" -> -(50 * k)
      [] type = "unrealistic_spike" -> R * (150 + 2 * k)

\* The generator of each outlier type, then Math.round(... * 100): hundredths
\* of a kW.  k is Math.random() in hundredths.
OutlierPower(type, R, k) ==
    CASE type = "negative_reading" -> MathRound(-(k * R), 2)
      [] type = "zero_reading" -> 0
      [] type = "extremely_high" -> R * (200 + 3 * k)
      [] type = "minor_negative" -> -(50 * k)
      [] type = "unrealistic_spike" -> R * (150 + 2 * k)

generateOutlierReading(turbine, timestamp, d) ==
    [windTurbineId |-> turbine.id,
     powerKW |-> OutlierPower(outlierTypes[d.type], turbine.ratedCapacityKW, d.k),
     timestamp |-> timestamp,
     outlier |-> TRUE,
     outlierType |-> outlierTypes[d.type]]

\* The clamp without its upper limit.
ClampedBelowOnly(R, P, unit) ==
    IF R <= 0 THEN 0 ELSE RoundProduct(R, P, unit \div 100)

\* Math.max(0, Math.min(R * p, R * 1.2)) and the rounding, for p = P / unit.
ClampedPower(R, P, unit) ==
    IF R <= 0 THEN 0
    ELSE IF 10 * P > 12 * unit THEN 120 * R
    ELSE RoundProduct(R, P, unit \div 100)

\* timeFactor * weatherFactor * windVariation, in thousandths; the factors are
\* in tenths and q1 is the Math.random() quarter of the variation.
WindStrengthAdditive(timeFactor, weatherFactor, q1) ==
    (timeFactor + weatherFactor) * 10 * (8 + q1)

WindStrength(timeFactor, weatherFactor, q1) ==
    timeFactor * weatherFactor * (8 + q1)

\* generatePowerOutput with the outlier draw compared by <=.
generatePowerOutputInclusive(w, turbine, timestamp, d) ==
    IF d.u0 <= OUTLIER_CHANCE
    THEN [reading |-> generateOutlierReading(turbine, timestamp, d),
          weather |-> w, factor |-> Null, timeFactor |-> Null,
          ticked |-> FALSE, starts |-> FALSE]
    ELSE LET timeFactor == getTimeBasedWindFactor(d.hour)
             wx == simulateWeatherEventsFrom(w, d.spawn, d.pick)
             P == WindStrength(timeFactor, wx.factor, d.q1) * (850 + 75 * d.q2)
         IN  [reading |-> [windTurbineId |-> turbine.id,
                           powerKW |-> ClampedPower(turbine.ratedCapacityKW, P, 1000000),
                           timestamp |-> timestamp,
                           outlier |-> FALSE,
                           outlierType |-> Null],
              weather |-> [weatherEvent |-> wx.weatherEvent,
                           weatherEventDuration |-> wx.weatherEventDuration],
              factor |-> wx.factor, timeFactor |-> timeFactor,
              ticked |-> TRUE, starts |-> wx.starts]

\* generatePowerOutput of the simulator from the weather state w: the reading,
\* the weather state it leaves and the two factors it used.  timestamp is the
\* local hour of the timestamp argument; d holds the random draws (u0 is
\* Math.random() * 100 rounded down) and the hour of the wall clock.
generatePowerOutput(w, turbine, timestamp, d) ==
    IF OUTLIER_CHANCE > 0 /\ d.u0 < OUTLIER_CHANCE
    THEN [reading |-> generateOutlierReading(turbine, timestamp, d),
          weather |-> w, factor |-> Null, timeFactor |-> Null,
          ticked |-> FALSE, starts |-> FALSE]
    ELSE LET timeFactor == getTimeBasedWindFactor(d.hour)
             wx == simulateWeatherEventsFrom(w, d.spawn, d.pick)
             P == WindStrength(timeFactor, wx.factor, d.q1) * (850 + 75 * d.q2)
         IN  [reading |-> [windTurbineId |-> turbine.id,
                           powerKW |-> ClampedPower(turbine.ratedCapacityKW, P, 1000000),
                           timestamp |-> timestamp,
                           outlier |-> FALSE,
                           outlierType |-> Null],
              weather |-> [weatherEvent |-> wx.weatherEvent,
                           weatherEventDuration |-> wx.weatherEventDuration],
              factor |-> wx.factor, timeFactor |-> timeFactor,
              ticked |-> TRUE, starts |-> wx.starts]

\* The wind strength factor of dataGenerator.js, in thousandths: a faker
\* float of the range of the hour, at the quarter q0 of the range.
windStrengthFactor(hour, q0) ==
    IF hour >= 22 \/ hour <= 6 THEN 700 + 75 * q0
    ELSE IF hour >= 10 /\ hour <= 16 THEN 300 + 100 * q0
    ELSE 500 + 100 * q0

\* generatePowerOutput of dataGenerator.js; hour is timestamp.getHours().
seedPowerOutput(windTurbineId, ratedCapacityKW, hour, d) ==
    LET P == windStrengthFactor(hour, d.q0) * (8 + d.q1) * (850 + 75 * d.q2)
    IN  [windTurbineId |-> windTurbineId,
         powerKW |-> ClampedPower(ratedCapacityKW, P, 10000000),
         timestamp |-> hour,
         outlier |-> FALSE,
         outlierType |-> Null]

\* The points Math.random() is drawn from.
Quarters == {0, 3}
Hundredths == {0, 50, 99}
Hours == {6, 7, 16}
Capacities == {1, 2500}

\* The local hours the timestamp of a reading can have when the wall clock
\* shows hour h as the generator reads it: the timestamp was taken just
\* before, in the same hour or at the end of the hour before.
TimestampHours(h) == {h} \cup ({(h + 23) % 24} \cap Hours)

\* All draws of one generatePowerOutput call, and the ones that decide it.
OutlierDraws ==
    { [u0 |-> 0, type |-> t, k |-> k, hour |-> 16, spawn |-> FALSE, pick |-> 1,
       q1 |-> 0, q2 |-> 0] : t \in 1..Len(outlierTypes), k \in Hundredths }
NormalDraws ==
    { [u0 |-> 99, type |-> 1, k |-> 0, hour |-> h, spawn |-> pk > 0,
       pick |-> IF pk > 0 THEN pk ELSE 1, q1 |-> q1, q2 |-> q2] :
         h \in Hours, pk \in 0..Len(events), q1 \in Quarters, q2 \in Quarters }
SeedDraws == { [q0 |-> q0, q1 |-> q1, q2 |-> q2] : q0 \in Quarters, q1 \in Quarters, q2 \in Quarters }

\* The bookkeeping of n further simulateWeatherEvents calls, the last start
\* among them made by the call at position at (0 when none started).
WeatherCalls(w, n, startsN, at, ev) ==
    /\ weatherEvent' = w.weatherEvent
    /\ weatherEventDuration' = w.weatherEventDuration
    /\ wxTicks' = wxTicks + n
    /\ wxSpawns' = wxSpawns + startsN
    /\ wxSpawned' = IF startsN > 0 THEN ev ELSE wxSpawned
    /\ wxSince' = IF startsN > 0 THEN n - at + 1
                  ELSE IF wxSpawned = Null THEN 0 ELSE wxSince + n

\* One call of the simulator's generator.  The reading is kept with the time
\* factor it was computed with, in thousandths.
GenerateReading ==
    /\ generated < MaxReadings
    /\ \E R \in Capacities, d \in OutlierDraws \cup NormalDraws :
        \E timestamp \in TimestampHours(d.hour) :
          LET g == generatePowerOutput(Weather, [id |-> 1, ratedCapacityKW |-> R], timestamp, d)
          IN  /\ reading' = [generator |-> "simulator", ratedCapacityKW |-> R, draws |-> d,
                             timeFactor |-> IF g.ticked THEN 100 * g.timeFactor ELSE Null,
                             reading |-> g.reading]
              /\ lastFactor' = IF g.ticked THEN g.factor ELSE lastFactor
              /\ WeatherCalls(g.weather, IF g.ticked THEN 1 ELSE 0,
                              IF g.starts THEN 1 ELSE 0, 1, events[d.pick])
    /\ generated' = generated + 1
    /\ UNCHANGED <<ingestVars, workOrderVars, seedVars, streamVars, simVars, OUTLIER_CHANCE>>

\* One call of the streaming and seed generator.
SeedReading ==
    /\ generated < MaxReadings
    /\ \E R \in Capacities, h \in Hours, d \in SeedDraws :
          reading' = [generator |-> "dataGenerator", ratedCapacityKW |-> R, draws |-> d,
                      timeFactor |-> windStrengthFactor(h, d.q0),
                      reading |-> seedPowerOutput(1, R, h, d)]
    /\ generated' = generated + 1
    /\ UNCHANGED <<ingestVars, workOrderVars, seedVars, streamVars, weatherVars, simVars, OUTLIER_CHANCE>>

(***************************************************************************)
(* The simulator driver, simulator.js:213-376.  An invocation of           *)
(* runSimulation suspended at an await is a record of runs:                *)
(*   id       : the invocation's number                                    *)
(*   pc       : "fetchActiveTurbines" (line 297), "sendPowerReadings"      *)
(*              (line 321) or "delay" (line 329)                           *)
(*   batches  : the fetched turbines in slices of BATCH_SIZE               *)
(*   i        : the batch being processed                                  *)
(*   readings : the readings generated for it                              *)
(* simLog[id] records what the invocation did: the delay of the timer that *)
(* started it, the outcome of the fetch, the turbines active when the      *)
(* fetch was answered, per batch the readings, the weather factor each     *)
(* reading was made with (<<f>>, or <<>> for an outlier) and the number of *)
(* simulateWeatherEvents calls, the outcome of each submit, and the timers *)
(* it created.                                                             *)
(***************************************************************************)
NewRun(id) ==
    [id |-> id, pc |-> "fetchActiveTurbines", batches |-> <<>>, i |-> 0, readings |-> <<>>]

NewLog(delay) ==
    [delay |-> delay, fetch |-> "pending", active |-> {}, generated |-> <<>>, factors |-> <<>>,
     calls |-> <<>>, sent |-> <<>>, scheduled |-> <<>>, ended |-> FALSE]

\* setTimeout(runSimulation, delay).
SetTimeout(delay) == simTimers (+) SetToBag({delay})

\* GET /api/1/windturbines?active=true&limit=100: the first page of the active
\* turbines in name order (names are in id order).
ActiveTurbines == {t \in DOMAIN WindTurbine : WindTurbine[t].active}

IsActive(t) == WindTurbine[t].active

fetchActiveTurbines ==
    LET limitNum == Min(MAX_LIMIT, Max(MIN_LIMIT, FetchLimit))
        rows == SelectSeq([t \in 1..Cardinality(DOMAIN WindTurbine) |-> t], IsActive)
    IN  [i \in 1..Min(limitNum, Len(rows)) |->
            [id |-> rows[i], ratedCapacityKW |-> DefaultCapacityKW]]

\* turbines.slice(i, i + BATCH_SIZE) for i = 0, BATCH_SIZE, ...
Batches(turbines) ==
    [b \in 1..((Len(turbines) + BATCH_SIZE - 1) \div BATCH_SIZE) |->
        SubSeq(turbines, (b - 1) * BATCH_SIZE + 1, Min(b * BATCH_SIZE, Len(turbines)))]

\* batch.map(turbine => generatePowerOutput(turbine, timestamp)) from position
\* i on; acc carries the readings and the weather state from call to call.
RECURSIVE GenerateFrom(_, _, _, _, _)
GenerateFrom(acc, batch, timestamp, ds, i) ==
    IF i > Len(batch) THEN acc
    ELSE LET g == generatePowerOutput(acc.weather, batch[i], timestamp, ds[i])
             n == IF g.ticked THEN acc.calls + 1 ELSE acc.calls
         IN  GenerateFrom([readings |-> Append(acc.readings, g.reading),
                           factors |-> Append(acc.factors, IF g.ticked THEN <<g.factor>> ELSE <<>>),
                           weather |-> g.weather,
                           calls |-> n,
                           starts |-> IF g.starts THEN acc.starts + 1 ELSE acc.starts,
                           at |-> IF g.starts THEN n ELSE acc.at,
                           ev |-> IF g.starts THEN events[ds[i].pick] ELSE acc.ev,
                           factor |-> IF g.ticked THEN g.factor ELSE acc.factor],
                          batch, timestamp, ds, i + 1)

GenerateBatch(batch, timestamp, ds) ==
    GenerateFrom([readings |-> <<>>, factors |-> <<>>, weather |-> Weather, calls |-> 0,
                  starts |-> 0, at |-> 0, ev |-> Null, factor |-> lastFactor],
                 batch, timestamp, ds, 1)

\* Lines 314-321 for batch i of run r: the readings are generated and their
\* submit is started.
StartBatch(r, batches, i, draws, entry) ==
    \E ds \in [1..Len(batches[i]) -> draws] :
        LET g == GenerateBatch(batches[i], <<r.id, i>>, ds)
        IN  /\ runs' = (runs \ {r}) \cup
                   {[r EXCEPT !.pc = "sendPowerReadings", !.batches = batches, !.i = i,
                              !.readings = g.readings]}
            /\ simLog' = [simLog EXCEPT ![r.id] =
                   [entry EXCEPT !.generated = Append(@, g.readings),
                                 !.factors = Append(@, g.factors),
                                 !.calls = Append(@, g.calls)]]
            /\ lastFactor' = g.factor
            /\ WeatherCalls(g.weather, g.calls, g.starts, g.at, g.ev)

\* The invocation returns having created a timer with this delay.
Reschedule(r, delay, entry) ==
    /\ simTimers' = SetTimeout(delay)
    /\ runs' = runs \ {r}
    /\ simLog' = [simLog EXCEPT ![r.id] =
           [entry EXCEPT !.scheduled = Append(@, delay), !.ended = TRUE]]
    /\ UNCHANGED weatherVars

\* An empty fleet whose branch falls through to the regular timer as well.
OnEmptyFleetFallThrough(r, entry) ==
    /\ simTimers' = simTimers (+) SetToBag({RetryDelayMs})
                              (+) SetToBag({STREAMING_INTERVAL * MsPerSecond})
    /\ runs' = runs \ {r}
    /\ simLog' = [simLog EXCEPT ![r.id] =
           [entry EXCEPT !.scheduled = @ \o <<RetryDelayMs, STREAMING_INTERVAL * MsPerSecond>>,
                         !.ended = TRUE]]
    /\ UNCHANGED weatherVars

\* Lines 299-303: no active turbines.
OnEmptyFleet(r, entry) == Reschedule(r, RetryDelayMs, entry)

\* A failure that leaves runSimulation without a new timer.
OnSimulationErrorFatal(r, entry) ==
    /\ runs' = runs \ {r}
    /\ simLog' = [simLog EXCEPT ![r.id] = [entry EXCEPT !.ended = TRUE]]
    /\ UNCHANGED <<simTimers, weatherVars>>

\* Lines 334-340: the catch of runSimulation, then the regular timer.
OnSimulationError(r, entry) == Reschedule(r, STREAMING_INTERVAL * MsPerSecond, entry)

\* A completed cycle that arms the regular timer twice.
OnCycleCompletedTwice(r, entry) ==
    /\ simTimers' = SetTimeout(STREAMING_INTERVAL * MsPerSecond)
                         (+) SetToBag({STREAMING_INTERVAL * MsPerSecond})
    /\ runs' = runs \ {r}
    /\ simLog' = [simLog EXCEPT ![r.id] =
           [entry EXCEPT !.scheduled = @ \o <<STREAMING_INTERVAL * MsPerSecond,
                                              STREAMING_INTERVAL * MsPerSecond>>,
                         !.ended = TRUE]]
    /\ UNCHANGED weatherVars

\* Lines 332-340: the cycle is complete.
OnCycleCompleted(r, entry) == Reschedule(r, STREAMING_INTERVAL * MsPerSecond, entry)

\* A runSimulation timer fires (the start-up timer of line 363 included).
RunSimulation ==
    /\ ~exited
    /\ simCycles < MaxCycles
    /\ \E delay \in BagToSet(simTimers) :
          /\ simTimers' = simTimers (-) SetToBag({delay})
          /\ simLog' = [id \in {k \in DOMAIN simLog : ~simLog[k].ended} \cup {simCycles + 1} |->
                           IF id = simCycles + 1 THEN NewLog(delay) ELSE simLog[id]]
    /\ simCycles' = simCycles + 1
    /\ runs' = runs \cup {NewRun(simCycles + 1)}
    /\ UNCHANGED <<ingestVars, workOrderVars, seedVars, streamVars, weatherVars, genVars, STREAMING_INTERVAL, exited>>

\* The fetch settles: "ok" with the list, "noData" with a body that has no
\* data field (an error response), "error" with a rejection.
FetchDone(r, outcome, draws) ==
    /\ ~exited
    /\ r.pc = "fetchActiveTurbines"
    /\ LET turbines == IF outcome = "ok" THEN fetchActiveTurbines ELSE <<>>
           entry == [simLog[r.id] EXCEPT !.fetch = outcome, !.active = ActiveTurbines]
       IN  IF outcome = "error" THEN OnSimulationError(r, entry)
           ELSE IF Len(turbines) = 0 THEN OnEmptyFleet(r, entry)
           ELSE /\ StartBatch(r, Batches(turbines), 1, draws, entry)
                /\ UNCHANGED simTimers
    /\ UNCHANGED <<ingestVars, workOrderVars, seedVars, streamVars, genVars, STREAMING_INTERVAL, simCycles, exited>>

\* The submit of the current batch settles; its failure is caught at line 324.
SendDone(r, outcome) ==
    /\ ~exited
    /\ r.pc = "sendPowerReadings"
    /\ runs' = (runs \ {r}) \cup {[r EXCEPT !.pc = "delay"]}
    /\ simLog' = [simLog EXCEPT ![r.id].sent = Append(@, outcome)]
    /\ UNCHANGED <<ingestVars, workOrderVars, seedVars, streamVars, weatherVars, genVars, STREAMING_INTERVAL, simTimers, simCycles,
                   exited>>

\* The one-second pause of line 329 is over: the next batch, or the end of
\* the cycle.
DelayDone(r, draws) ==
    /\ ~exited
    /\ r.pc = "delay"
    /\ IF r.i < Len(r.batches)
       THEN /\ StartBatch(r, r.batches, r.i + 1, draws, simLog[r.id])
            /\ UNCHANGED simTimers
       ELSE OnCycleCompleted(r, simLog[r.id])
    /\ UNCHANGED <<ingestVars, workOrderVars, seedVars, streamVars, genVars, STREAMING_INTERVAL, simCycles, exited>>

\* SIGINT or SIGTERM: the handler calls process.exit(0).
Signal ==
    /\ ~exited
    /\ exited' = TRUE
    /\ UNCHANGED <<ingestVars, workOrderVars, seedVars, streamVars, weatherVars, genVars, STREAMING_INTERVAL, simTimers, runs,
                   simCycles, simLog>>

(***************************************************************************)
(* POST /api/1/stream/power-output/batch, streaming.js:179-219.  The body  *)
(* is a JSON value; an entry of readings is null or an object whose        *)
(* windTurbineId and powerKW are absent, a string or a number.  ingest is  *)
(*   pc        : "idle", "create" (awaiting line 197) or "done"            *)
(*   readings  : req.body.readings                                         *)
(*   i         : the entry being persisted                                 *)
(*   saved     : savedReadings, as the positions of the entries saved      *)
(*   res       : the response sent, or Null                                *)
(***************************************************************************)
JsString(v) == [kind |-> "string", val |-> v]
JsNumber(n) == [kind |-> "number", val |-> n]
JsArray(items) == [kind |-> "array", items |-> items]
JsObject(windTurbineId, powerKW) ==
    [kind |-> "object", windTurbineId |-> windTurbineId, powerKW |-> powerKW]

\* !v for the values above.
Falsy(v) ==
    \/ v.kind \in {"undefined", "null"}
    \/ v.kind = "string" /\ v.val = ""
    \/ v.kind = "number" /\ v.val = 0

\* Line 193 for an object entry: the entry is skipped.
InvalidReading(entry) == Falsy(entry.windTurbineId) \/ entry.powerKW.kind # "number"

\* The loop of lines 192-204 from entry i: where it stops next.  Reading a
\* property of null throws.
RECURSIVE NextStop(_, _)
NextStop(readings, i) ==
    IF i > Len(readings) THEN [what |-> "end", at |-> i]
    ELSE IF readings[i].kind = "null" THEN [what |-> "throw", at |-> i]
    ELSE IF InvalidReading(readings[i]) THEN NextStop(readings, i + 1)
    ELSE [what |-> "create", at |-> i]

IdleIngest == [pc |-> "idle", readings |-> <<>>, i |-> 0, saved |-> <<>>, res |-> Null]

\* The handler runs on from entry i to its next await or to its response.
IngestFrom(readings, i, saved) ==
    LET stop == NextStop(readings, i)
    IN  CASE stop.what = "create" ->
               [pc |-> "create", readings |-> readings, i |-> stop.at, saved |-> saved,
                res |-> Null]
          [] stop.what = "throw" ->
               [pc |-> "done", readings |-> readings, i |-> stop.at, saved |-> saved,
                res |-> [status |-> 500, savedCount |-> Null, totalReceived |-> Null]]
          [] stop.what = "end" ->
               [pc |-> "done", readings |-> readings, i |-> stop.at, saved |-> saved,
                res |-> [status |-> 201, savedCount |-> JsNumber(Len(saved)),
                         totalReceived |-> JsNumber(Len(readings))]]

\* The row PowerOutput.create stores for entry i of the batch.
IngestRow(readings, i) ==
    [windTurbineId |-> readings[i].windTurbineId.val, conn |-> 0, cycle |-> i]

\* The request arrives.
BatchIngest(bodies) ==
    /\ ingest.pc = "idle"
    /\ \E body \in bodies :
          ingest' = IF body.kind # "array"
                    THEN [IdleIngest EXCEPT !.pc = "done",
                             !.res = [status |-> 400, savedCount |-> Null, totalReceived |-> Null]]
                    ELSE IngestFrom(body.items, 1, <<>>)
    /\ UNCHANGED <<streamVars, weatherVars, genVars, simVars, workOrderVars, seedVars>>

\* A create whose failure is swallowed: the loop goes on with the next entry.
BatchCreateDoneSkipFailed(storeFails) ==
    /\ ingest.pc = "create"
    /\ \/ /\ storeFails /\ faults < MaxFaults
          /\ faults' = faults + 1
          /\ ingest' = IngestFrom(ingest.readings, ingest.i + 1, ingest.saved)
          /\ UNCHANGED PowerOutput
       \/ /\ PowerOutput' = PowerOutput (+) SetToBag({IngestRow(ingest.readings, ingest.i)})
          /\ ingest' = IngestFrom(ingest.readings, ingest.i + 1, Append(ingest.saved, ingest.i))
          /\ UNCHANGED faults
    /\ UNCHANGED <<nextReq, query, res, scope, log, sseConnections, timers, cycles, started,
                   ticks, WindTurbine, listening, closeFired, errorFired, unhandledRejections,
                   weatherVars, genVars, simVars, workOrderVars, seedVars>>

\* PowerOutput.create settles.
BatchCreateDone(storeFails) ==
    /\ ingest.pc = "create"
    /\ \/ /\ storeFails /\ faults < MaxFaults
          /\ faults' = faults + 1
          /\ ingest' = [ingest EXCEPT !.pc = "done",
                           !.res = [status |-> 500, savedCount |-> Null, totalReceived |-> Null]]
          /\ UNCHANGED PowerOutput
       \/ /\ PowerOutput' = PowerOutput (+) SetToBag({IngestRow(ingest.readings, ingest.i)})
          /\ ingest' = IngestFrom(ingest.readings, ingest.i + 1, Append(ingest.saved, ingest.i))
          /\ UNCHANGED faults
    /\ UNCHANGED <<nextReq, query, res, scope, log, sseConnections, timers, cycles, started,
                   ticks, WindTurbine, listening, closeFired, errorFired, unhandledRejections,
                   weatherVars, genVars, simVars, workOrderVars, seedVars>>

(***************************************************************************)
(* The work-order routes, routes/workorders.js.  A row of work_orders is   *)
(* [status, resolutionDate, deletedAt]; an id is the row's position in     *)
(* WorkOrder.  A handler with two awaits that matter (PATCH and DELETE:    *)
(* the lookup, then the write) is two steps, and between them it is a      *)
(* record of woRequests; the other handlers are one step.  A response is   *)
(* [n, op, id, status, data], n the number of the request it answers.      *)
(***************************************************************************)
Statuses == {JsString("open"), JsString("in_progress"), JsString("closed")}
Closed == JsString("closed")

\* new Date() on the server, and a date a client sent.
Date(by) == [kind |-> "date", by |-> by]

Response(n, op, id, status, data) ==
    [n |-> n, op |-> op, id |-> id, status |-> status, data |-> data]

\* findByPk(id, { paranoid }): the row, or Null.
findByPk(id, paranoid) ==
    IF id \in DOMAIN WorkOrder /\ (~paranoid \/ WorkOrder[id].deletedAt = Null)
    THEN WorkOrder[id]
    ELSE Null

\* instance.update(updates): the attributes given in updates are written.
Update(row, updates) ==
    [row EXCEPT !.status = IF updates.status # Undefined THEN updates.status ELSE @,
                !.resolutionDate =
                    IF updates.resolutionDate # Undefined THEN updates.resolutionDate ELSE @]

\* Lines 285-293: the resolution date that goes with a change of status.
WithResolutionDate(updates, workOrder) ==
    LET closing == IF updates.status = Closed /\ workOrder.status # Closed
                   THEN [updates EXCEPT !.resolutionDate = Date("server")]
                   ELSE updates
    IN  IF ~Falsy(closing.status) /\ closing.status # Closed /\ workOrder.status = Closed
        THEN [closing EXCEPT !.resolutionDate = Null]
        ELSE closing

\* POST /: a work order for an existing turbine, with the model's defaults.
CreateWorkOrder ==
    /\ woBegun < MaxWoRequests
    /\ Len(WorkOrder) < MaxWorkOrders
    /\ DOMAIN WindTurbine # {}
    /\ woBegun' = woBegun + 1
    /\ WorkOrder' = Append(WorkOrder,
                       [status |-> JsString("open"), resolutionDate |-> Null, deletedAt |-> Null])
    /\ WorkOrderComment' = Append(WorkOrderComment, 0)
    /\ woResponse' = Response(woBegun + 1, "post", Len(WorkOrder) + 1, 201,
                              WorkOrder'[Len(WorkOrder) + 1])
    /\ UNCHANGED <<woRequests, streamVars, weatherVars, genVars, simVars, ingestVars, seedVars>>

\* GET /:id, lines 227-263.
GetWorkOrder(id) ==
    /\ woBegun < MaxWoRequests
    /\ woBegun' = woBegun + 1
    /\ LET workOrder == findByPk(id, FALSE)
       IN  woResponse' = IF workOrder = Null
                         THEN Response(woBegun + 1, "get", id, 404, Null)
                         ELSE Response(woBegun + 1, "get", id, 200, workOrder)
    /\ UNCHANGED <<WorkOrder, WorkOrderComment, woRequests, streamVars, weatherVars, genVars,
                   simVars, ingestVars, seedVars>>

\* GET /, lines 13-88, without filters and within the first page: the ids of
\* the rows the query returns.
ListWorkOrders(includeDeleted) ==
    /\ woBegun < MaxWoRequests
    /\ woBegun' = woBegun + 1
    /\ LET paranoid == includeDeleted # JsString("true")
       IN  woResponse' = Response(woBegun + 1, "list", includeDeleted, 200,
                                  {id \in DOMAIN WorkOrder : findByPk(id, paranoid) # Null})
    /\ UNCHANGED <<WorkOrder, WorkOrderComment, woRequests, streamVars, weatherVars, genVars,
                   simVars, ingestVars, seedVars>>

\* PATCH /:id up to the await of line 296: the lookup of line 274, and the
\* updates of lines 285-293 made from the instance it loaded.
PatchFind(id, body) ==
    /\ woBegun < MaxWoRequests
    /\ woBegun' = woBegun + 1
    /\ LET workOrder == findByPk(id, FALSE)
       IN  IF workOrder = Null
           THEN /\ woResponse' = Response(woBegun + 1, "patch", id, 404, Null)
                /\ UNCHANGED woRequests
           ELSE /\ woRequests' = woRequests \cup
                       {[n |-> woBegun + 1, op |-> "patch", id |-> id,
                         updates |-> WithResolutionDate(body, workOrder)]}
                /\ UNCHANGED woResponse
    /\ UNCHANGED <<WorkOrder, WorkOrderComment, streamVars, weatherVars, genVars, simVars,
                   ingestVars, seedVars>>

\* Lines 296-308: the update is validated and written, and the row answered.
PatchUpdate(q) ==
    /\ q \in woRequests /\ q.op = "patch"
    /\ woRequests' = woRequests \ {q}
    /\ IF q.updates.status # Undefined /\ q.updates.status \notin Statuses
       THEN /\ woResponse' = Response(q.n, "patch", q.id, 400, Null)
            /\ UNCHANGED WorkOrder
       ELSE /\ WorkOrder' = [WorkOrder EXCEPT ![q.id] = Update(@, q.updates)]
            /\ woResponse' = Response(q.n, "patch", q.id, 200, WorkOrder'[q.id])
    /\ UNCHANGED <<WorkOrderComment, woBegun, streamVars, weatherVars, genVars, simVars,
                   ingestVars, seedVars>>

\* A DELETE whose lookup also finds soft-deleted rows.
DeleteFindAny(id) ==
    /\ woBegun < MaxWoRequests
    /\ woBegun' = woBegun + 1
    /\ IF findByPk(id, FALSE) = Null
       THEN /\ woResponse' = Response(woBegun + 1, "delete", id, 404, Null)
            /\ UNCHANGED woRequests
       ELSE /\ woRequests' = woRequests \cup {[n |-> woBegun + 1, op |-> "delete", id |-> id]}
            /\ UNCHANGED woResponse
    /\ UNCHANGED <<WorkOrder, WorkOrderComment, streamVars, weatherVars, genVars, simVars,
                   ingestVars, seedVars>>

\* DELETE /:id up to the await of line 343: the lookup of line 335.
DeleteFind(id) ==
    /\ woBegun < MaxWoRequests
    /\ woBegun' = woBegun + 1
    /\ IF findByPk(id, TRUE) = Null
       THEN /\ woResponse' = Response(woBegun + 1, "delete", id, 404, Null)
            /\ UNCHANGED woRequests
       ELSE /\ woRequests' = woRequests \cup {[n |-> woBegun + 1, op |-> "delete", id |-> id]}
            /\ UNCHANGED woResponse
    /\ UNCHANGED <<WorkOrder, WorkOrderComment, streamVars, weatherVars, genVars, simVars,
                   ingestVars, seedVars>>

\* Lines 343-344: destroy() of a paranoid model sets deletedAt on a row that
\* has none.
DeleteDestroy(q) ==
    /\ q \in woRequests /\ q.op = "delete"
    /\ woRequests' = woRequests \ {q}
    /\ WorkOrder' = [WorkOrder EXCEPT ![q.id].deletedAt = IF @ = Null THEN Date("server") ELSE @]
    /\ woResponse' = Response(q.n, "delete", q.id, 204, Null)
    /\ UNCHANGED <<WorkOrderComment, woBegun, streamVars, weatherVars, genVars, simVars,
                   ingestVars, seedVars>>

\* POST /:id/comments, lines 359-396; complete says userId and content are set.
AddComment(id, complete) ==
    /\ woBegun < MaxWoRequests
    /\ woBegun' = woBegun + 1
    /\ IF ~complete
       THEN /\ woResponse' = Response(woBegun + 1, "comment", id, 400, Null)
            /\ UNCHANGED WorkOrderComment
       ELSE IF findByPk(id, FALSE) = Null
       THEN /\ woResponse' = Response(woBegun + 1, "comment", id, 404, Null)
            /\ UNCHANGED WorkOrderComment
       ELSE /\ WorkOrderComment' = [WorkOrderComment EXCEPT ![id] = @ + 1]
            /\ woResponse' = Response(woBegun + 1, "comment", id, 201, Null)
    /\ UNCHANGED <<WorkOrder, woRequests, streamVars, weatherVars, genVars, simVars,
                   ingestVars, seedVars>>

(***************************************************************************)
(* Start-up and seeding: scripts/start.js, scripts/check-seed-data.js,     *)
(* services/seedRunner.js and seedDatabase of dataGenerator.js.  The       *)
(* database is seen as                                                     *)
(*   turbines   : the number of rows of wind_turbines                      *)
(*   generation : how many times its tables have been emptied or refilled  *)
(*   userRows   : rows written through the API since then                  *)
(***************************************************************************)
\* checkSeedDataExists: the count of turbines, false when the check throws.
checkSeedDataExists(fails) == IF fails THEN FALSE ELSE database.turbines > 0

\* resetDatabase: every table is dropped and created again.
resetDatabase(db) == [turbines |-> 0, generation |-> db.generation + 1, userRows |-> 0]

\* seedDatabase: the four tables are emptied, then filled.  It fails at
\* once (nothing is touched), after the tables were emptied, or not at all.
seedDatabase(db, outcome) ==
    IF outcome = "failsAtOnce" THEN db
    ELSE IF outcome = "ok"
    THEN [turbines |-> SeedTurbines, generation |-> db.generation + 1, userRows |-> 0]
    ELSE [turbines |-> 0, generation |-> db.generation + 1, userRows |-> 0]

SeedOutcomes == {"ok", "failsAtOnce", "failsAfterClear"}

\* main of seedRunner.js, started with args; confirmed is the answer to the
\* prompt, outcome is how seedDatabase goes.
SeedRunnerMain(args, confirmed, outcome) ==
    IF "--help" \in args THEN database
    ELSE IF "--reset" \in args \/ "--clear" \in args
    THEN IF "--force" \notin args /\ ~confirmed THEN database
         ELSE IF "--clear" \in args THEN resetDatabase(database)
         ELSE seedDatabase(resetDatabase(database), outcome)
    ELSE seedDatabase(database, outcome)

\* The seeder is run from the command line.
SeedRunner(args, confirmed, outcome) ==
    /\ scriptRuns < MaxScriptRuns
    /\ scriptRuns' = scriptRuns + 1
    /\ database' = SeedRunnerMain(args, confirmed, outcome)
    /\ lastScript' = [script |-> "seedRunner", args |-> args]
    /\ UNCHANGED <<streamVars, weatherVars, genVars, simVars, ingestVars, workOrderVars>>

\* main of start.js up to the start of the services: the seed-data check and
\* the seeder it runs without arguments.
StartScript(skipSeed, checkFails, outcome) ==
    /\ scriptRuns < MaxScriptRuns
    /\ scriptRuns' = scriptRuns + 1
    /\ database' = IF ~skipSeed /\ ~checkSeedDataExists(checkFails)
                   THEN SeedRunnerMain({}, FALSE, outcome)
                   ELSE database
    /\ lastScript' = [script |-> "start", args |-> IF skipSeed THEN {"--skip-seed"} ELSE {}]
    /\ UNCHANGED <<streamVars, weatherVars, genVars, simVars, ingestVars, workOrderVars>>

\* The running service stores a row for a client.
ApiWrite ==
    /\ database.userRows < MaxUserRows
    /\ database' = [database EXCEPT !.userRows = @ + 1]
    /\ UNCHANGED <<scriptRuns, lastScript, streamVars, weatherVars, genVars, simVars,
                   ingestVars, workOrderVars>>

(***************************************************************************)
(* Inputs and specifications.                                              *)
(***************************************************************************)
Blank == <<0, 0>>
Spaces == <<1, 0>>
Id(t) == <<0, t>>
Padded(t) == <<1, t>>

\* windTurbineIds: absent, "", ",,", " , ", "1", " 1,,2", "1,1,<unknown id>"
AllIds ==
    { Undefined, Str(<<Blank>>), Str(<<Blank, Blank, Blank>>), Str(<<Spaces, Spaces>>),
      Str(<<Id(1)>>), Str(<<Padded(1), Blank, Id(2)>>),
      Str(<<Id(1), Id(1), Id(NumTurbines + 1)>>) }

\* interval: absent, "1", "300", "0", "-5", "301", "1.5", "abc"
AllIntervals ==
    { Undefined, Num(MinIntervalSeconds), Num(MaxIntervalSeconds), Num(0), Num(-5),
      Num(MaxIntervalSeconds + 1), Dec(1), Text }

\* The requests of the fan-out specifications: ",," and " 1,,2"; interval absent.
StreamIds == { Str(<<Blank, Blank, Blank>>), Str(<<Padded(1), Blank, Id(2)>>) }
StreamIntervals == { Undefined }

\* The request of the large-fleet specification: every turbine of the fleet.
FleetIds == { Str([t \in 1..(DEFAULT_LIMIT + FleetExtra) |-> Id(t)]) }

InitWeather ==
    /\ weatherEvent = Null
    /\ weatherEventDuration = 0
    /\ lastFactor = 10
    /\ wxTicks = 0
    /\ wxSpawns = 0
    /\ wxSpawned = Null
    /\ wxSince = 0
    /\ reading = Null
    /\ generated = 0

StreamingIntervals == {10, 30}

\* The outlier chances the simulator is started with: outliers disabled,
\* the default, and every reading an outlier.
OutlierChances == {0, DefaultOutlierChance, 100}

\* The simulator after module load, started with one of the given intervals
\* and outlier chances.
InitSimulator(intervals, chances) ==
    /\ STREAMING_INTERVAL \in intervals
    /\ OUTLIER_CHANCE \in chances
    /\ simTimers = SetToBag({StartupDelayMs})
    /\ runs = {}
    /\ simCycles = 0
    /\ simLog = <<>>
    /\ exited = FALSE
    /\ ingest = IdleIngest

InitSim == InitSimulator(StreamingIntervals, {DefaultOutlierChance})

\* No work orders yet, and no request.
InitWorkOrders ==
    /\ WorkOrder = <<>>
    /\ WorkOrderComment = <<>>
    /\ woRequests = {}
    /\ woResponse = Null
    /\ woBegun = 0

\* A database file that was just created: the first run is still to come.
InitScripts ==
    /\ database = [turbines |-> 0, generation |-> 0, userRows |-> 0]
    /\ scriptRuns = 0
    /\ lastScript = Null

InitStream(fleet) ==
    /\ nextReq = 1
    /\ query = [r \in Requests |-> Null]
    /\ res = [r \in Requests |-> NewResponse]
    /\ scope = [r \in Requests |-> Null]
    /\ log = [r \in Requests |-> <<>>]
    /\ sseConnections = <<>>
    /\ timers = [r \in Requests |-> NoTimer]
    /\ cycles = {}
    /\ started = [r \in Requests |-> 0]
    /\ ticks = 0
    /\ PowerOutput = EmptyBag
    /\ WindTurbine = [t \in fleet |-> [active |-> TRUE]]
    /\ listening = {}
    /\ closeFired = {}
    /\ errorFired = {}
    /\ unhandledRejections = {}
    /\ faults = 0
    /\ InitWorkOrders
    /\ InitScripts

\* The fan-out over a healthy store: several subscriptions, their cycles and
\* timer ticks, and their disconnects.
Init == InitStream(1..NumTurbines) /\ InitWeather /\ InitSim

Next ==
    \/ Subscribe(StreamIds, StreamIntervals, MaxRequests)
    \/ \E cy \in cycles : FindAllDone(cy, FALSE)
    \/ \E cy \in cycles : CreateDone(cy, FALSE)
    \/ \E c \in Requests : Tick(c)
    \/ \E c \in Requests : Close(c)
    \/ \E c \in Requests : Error(c)

Spec == Init /\ [][Next]_vars

\* One subscription over a store whose operations may fail.
NextRecovery ==
    \/ Subscribe(StreamIds, StreamIntervals, 1)
    \/ \E cy \in cycles : FindAllDone(cy, TRUE)
    \/ \E cy \in cycles : CreateDone(cy, TRUE)
    \/ \E c \in Requests : Tick(c)
    \/ \E c \in Requests : Close(c)
    \/ \E c \in Requests : Error(c)

SpecRecovery == Init /\ [][NextRecovery]_vars

\* Subscribe-time validation: one request, over every query value.
NextSubscribe ==
    \/ Subscribe(AllIds, AllIntervals, 1)
    \/ \E cy \in cycles : FindAllDone(cy, FALSE)
    \/ \E cy \in cycles : CreateDone(cy, FALSE)
    \/ \E c \in Requests : Tick(c)
    \/ \E c \in Requests : Close(c)

SpecSubscribe == Init /\ [][NextSubscribe]_vars

\* A fleet larger than the lookup limit, one subscription to all of it, and
\* turbines 1 and 2 switched on and off.
InitFleet == InitStream(1..(DEFAULT_LIMIT + FleetExtra)) /\ InitWeather /\ InitSim

NextFleet ==
    \/ Subscribe(FleetIds, {Undefined}, 1)
    \/ \E cy \in cycles : FindAllDone(cy, FALSE)
    \/ \E cy \in cycles : CreateDone(cy, FALSE)
    \/ \E c \in Requests : Close(c)
    \/ \E t \in 1..NumTurbines, b \in BOOLEAN : SetActive(t, b)

SpecFleet == InitFleet /\ [][NextFleet]_vars

\* The weather model alone.
NextWx == WeatherTick
SpecWeather == Init /\ [][NextWx]_vars

\* The two generators, one reading at a time.
NextGenerate == GenerateReading \/ SeedReading
InitGenerate ==
    /\ InitStream(1..NumTurbines)
    /\ InitWeather
    /\ InitSimulator({10}, OutlierChances)
SpecGenerate == InitGenerate /\ [][NextGenerate]_vars

\* The draws of the driver's readings: a zero_reading outlier, a normal
\* reading, and a normal reading whose weather call starts a storm if it can.
SimDraws ==
    { [u0 |-> 0, type |-> 2, k |-> 0, hour |-> 16, spawn |-> FALSE, pick |-> 1, q1 |-> 2, q2 |-> 2],
      [u0 |-> 50, type |-> 1, k |-> 0, hour |-> 16, spawn |-> FALSE, pick |-> 1, q1 |-> 2, q2 |-> 2],
      [u0 |-> 50, type |-> 1, k |-> 0, hour |-> 16, spawn |-> TRUE, pick |-> 1, q1 |-> 2, q2 |-> 2] }

\* The driver over a small fleet whose turbines are switched on and off.
NextSim ==
    \/ RunSimulation
    \/ \E r \in runs, outcome \in {"ok", "noData", "error"} : FetchDone(r, outcome, SimDraws)
    \/ \E r \in runs, outcome \in {"ok", "error"} : SendDone(r, outcome)
    \/ \E r \in runs : DelayDone(r, SimDraws)
    \/ \E t \in 1..NumTurbines, b \in BOOLEAN : SetActive(t, b)

\* Timers fire and requests settle.
FairSim ==
    /\ WF_vars(RunSimulation)
    /\ WF_vars(\E r \in runs, outcome \in {"ok", "noData", "error"} : FetchDone(r, outcome, SimDraws))
    /\ WF_vars(\E r \in runs, outcome \in {"ok", "error"} : SendDone(r, outcome))
    /\ WF_vars(\E r \in runs : DelayDone(r, SimDraws))

SpecSim == Init /\ [][NextSim]_vars /\ FairSim

\* The driver and the termination signals.
NextShutdown ==
    \/ RunSimulation
    \/ \E r \in runs, outcome \in {"ok", "error"} : FetchDone(r, outcome, SimDraws)
    \/ \E r \in runs, outcome \in {"ok", "error"} : SendDone(r, outcome)
    \/ \E r \in runs : DelayDone(r, SimDraws)
    \/ Signal

SpecShutdown == Init /\ [][NextShutdown]_vars

\* The driver over a fleet larger than one page of the turbine list; no
\* outliers and no weather events are drawn.
FleetDraws ==
    { [u0 |-> 50, type |-> 1, k |-> 0, hour |-> 16, spawn |-> FALSE, pick |-> 1, q1 |-> 2, q2 |-> 2] }

InitSimFleet == InitStream(1..(FetchLimit + FleetExtra)) /\ InitWeather /\ InitSim

NextSimFleet ==
    \/ RunSimulation
    \/ \E r \in runs, outcome \in {"ok", "error"} : FetchDone(r, outcome, FleetDraws)
    \/ \E r \in runs, outcome \in {"ok", "error"} : SendDone(r, outcome)
    \/ \E r \in runs : DelayDone(r, FleetDraws)
    \/ \E t \in 1..NumTurbines, b \in BOOLEAN : SetActive(t, b)

SpecSimFleet == InitSimFleet /\ [][NextSimFleet]_vars

\* The entries of a batch: two valid readings, readings without power or
\* with a string for it, readings without a turbine id or with an empty one,
\* and null.
Entries ==
    { JsObject(JsNumber(1), JsNumber(500)), JsObject(JsNumber(2), JsNumber(0)),
      JsObject(JsNumber(2), Undefined), JsObject(JsNumber(1), JsString("500")),
      JsObject(Undefined, JsNumber(500)), JsObject(JsString(""), JsNumber(500)),
      Null }

\* The request bodies: no readings field, a readings field that is no array,
\* and every array of up to MaxBatchLen entries.
Bodies ==
    {Undefined, JsString("readings")}
        \cup {JsArray(items) : items \in UNION {[1..n -> Entries] : n \in 0..MaxBatchLen}}

\* Batch ingest over a healthy store.
NextIngest ==
    \/ BatchIngest(Bodies)
    \/ BatchCreateDone(FALSE)

SpecIngest == Init /\ [][NextIngest]_vars

\* Batch ingest over a store whose create can fail.
NextIngestFaulty ==
    \/ BatchIngest(Bodies)
    \/ BatchCreateDone(TRUE)

SpecIngestFaulty == Init /\ [][NextIngestFaulty]_vars

\* The bodies of a PATCH: a new status (one of them no status of the model),
\* a resolution date, and a title only.
PatchBodies ==
    { [status |-> st, resolutionDate |-> Undefined] :
         st \in {Undefined, JsString("in_progress"), Closed, JsString("done")} }
      \cup { [status |-> Undefined, resolutionDate |-> Date("client")] }

\* The ids requests name: the work orders that can exist and one that cannot.
WorkOrderIds == 1..(MaxWorkOrders + 1)

\* The work-order routes under concurrent requests.
InitWorkOrderRoutes ==
    /\ InitStream(1..NumTurbines)
    /\ InitWeather
    /\ InitSimulator({10}, {DefaultOutlierChance})

NextWorkOrders ==
    \/ CreateWorkOrder
    \/ \E id \in WorkOrderIds : GetWorkOrder(id)
    \/ \E includeDeleted \in {Undefined, JsString("true")} : ListWorkOrders(includeDeleted)
    \/ \E id \in WorkOrderIds, body \in PatchBodies : PatchFind(id, body)
    \/ \E q \in woRequests : PatchUpdate(q)
    \/ \E id \in WorkOrderIds : DeleteFind(id)
    \/ \E q \in woRequests : DeleteDestroy(q)
    \/ \E id \in WorkOrderIds, complete \in BOOLEAN : AddComment(id, complete)

SpecWorkOrders == InitWorkOrderRoutes /\ [][NextWorkOrders]_vars

\* The arguments the seeder is started with.
SeedArgs == SUBSET {"--reset", "--clear", "--force", "--help"}

\* Restarts, seeder runs and the API's writes between them.
NextScripts ==
    \/ \E args \in SeedArgs, confirmed \in BOOLEAN, outcome \in SeedOutcomes :
          SeedRunner(args, confirmed, outcome)
    \/ \E skipSeed \in BOOLEAN, checkFails \in BOOLEAN, outcome \in SeedOutcomes :
          StartScript(skipSeed, checkFails, outcome)
    \/ ApiWrite

SpecScripts == InitWorkOrderRoutes /\ [][NextScripts]_vars

(***************************************************************************)
(* Properties.                                                             *)
(***************************************************************************)
Arrived == 1..(nextReq - 1)
Disconnected == closeFired \cup errorFired
EventsOf(c) == res[c].events
EventTypes(c, type) == {i \in 1..Len(EventsOf(c)) : EventsOf(c)[i].type = type}
\* The rows stored for subscription c, each with its number of copies.
Persisted(c) ==
    {<<row, CopiesIn(row, PowerOutput)>> : row \in {x \in BagToSet(PowerOutput) : x.conn = c}}
\* The place of a step in the handler's program order (0 when it never ran).
Position(c, step) ==
    IF \E i \in 1..Len(log[c]) : log[c][i] = step
    THEN CHOOSE i \in 1..Len(log[c]) : log[c][i] = step
    ELSE 0

\* C1: for a single subscription, two sendPowerData cycles are never in
\* progress at the same time: a cycle has settled before the next one of the
\* same subscription starts.
C1_CyclesSequential ==
    \A c \in Requests : Cardinality(CyclesOf(c)) <= 1

\* C2: once a subscriber has disconnected (close or error), no further event
\* is written to its response and no further reading is stored on its behalf.
C2_SilentAfterDisconnect ==
    [][\A c \in Disconnected :
          /\ EventsOf(c)' = EventsOf(c)
          /\ Persisted(c)' = Persisted(c)]_vars

\* C3: every accepted subscription has exactly one connected event, written
\* before any power-output or error event; its first cycle is started by the
\* handler itself, after the connected event and before the timer is armed.
C3_ConnectedThenCycleThenTimer ==
    \A c \in listening :
        /\ Len(EventsOf(c)) >= 1
        /\ EventTypes(c, "connected") = {1}
        /\ started[c] >= 1
        /\ 0 < Position(c, "connected")
        /\ Position(c, "connected") < Position(c, "sendPowerData")
        /\ Position(c, "sendPowerData") < Position(c, "setInterval")

\* C3 witness: an accepted subscription whose immediate cycle has pushed its
\* power-output event while the timer has not fired.
C3_Witness ==
    \E c \in listening :
        /\ ticks = 0
        /\ Len(EventsOf(c)) = 2
        /\ EventsOf(c)[2].type = "power-output"
        /\ EventsOf(c)[2].cycle = 1

\* C4: a failed turbine lookup or persistence write is caught: an error event
\* is written to the subscriber of the failed cycle, the active set and every
\* timer stay as they are, and the handler's failure does not escape.
C4_FailureIsLocal ==
    [][faults' > faults =>
          /\ \E c \in Requests :
                /\ Len(EventsOf(c)') = Len(EventsOf(c)) + 1
                /\ EventsOf(c)'[Len(EventsOf(c)')].type = "error"
                /\ \A d \in Requests \ {c} : res'[d] = res[d]
          /\ sseConnections' = sseConnections
          /\ timers' = timers
          /\ unhandledRejections' = unhandledRejections]_vars

\* C4 witness: a subscription still active and armed whose cycle failed and
\* whose later cycle, started by a timer tick, pushed a power-output event.
C4_Witness ==
    \E c \in DOMAIN sseConnections :
        /\ timers[c].armed
        /\ \E i, j \in 1..Len(EventsOf(c)) :
              /\ i < j
              /\ EventsOf(c)[i].type = "error"
              /\ EventsOf(c)[j].type = "power-output"
              /\ EventsOf(c)[j].cycle > EventsOf(c)[i].cycle

\* C5: the disconnect of one subscription cancels its own timer and removes
\* its own entry, and leaves the timer, the entry and the event stream of
\* every other subscription as they were.
C5_DisconnectTouchesOnlyItself ==
    [][\A c \in Requests :
          c \in (closeFired' \ closeFired) \cup (errorFired' \ errorFired)
          => /\ ~timers'[c].armed
             /\ c \notin DOMAIN sseConnections'
             /\ \A d \in Requests \ {c} :
                   /\ timers'[d] = timers[d]
                   /\ (d \in DOMAIN sseConnections) = (d \in DOMAIN sseConnections')
                   /\ d \in DOMAIN sseConnections => sseConnections'[d] = sseConnections[d]
                   /\ res'[d] = res[d]]_vars

\* C5 witness: one subscription has disconnected while another is still in
\* the map with its timer armed and has been pushed data since.
C5_Witness ==
    \E c \in Disconnected, d \in DOMAIN sseConnections :
        /\ c # d
        /\ timers[d].armed
        /\ EventTypes(d, "power-output") # {}

\* C6: the status query reports exactly the accepted subscriptions that have
\* signalled neither close nor error; each of them has an armed timer, and
\* each disconnected one has its timer cancelled, whichever of close and
\* error (or both) it signalled.
C6_StatusIsTheOpenSet ==
    /\ {x.connectionId : x \in StatusReport.connections} = listening \ Disconnected
    /\ StatusReport.activeConnections = Cardinality(listening \ Disconnected)
    /\ \A c \in DOMAIN sseConnections : timers[c].armed
    /\ \A c \in Disconnected : ~timers[c].armed

\* C6 witness: one subscription signalled error and then close, another only
\* close or only error, and the status query reports none of them.
C6_Witness ==
    /\ closeFired \cap errorFired # {}
    /\ Disconnected \ (closeFired \cap errorFired) # {}
    /\ StatusReport.activeConnections = 0

\* C7: each power-output event holds exactly one reading for every subscribed
\* turbine that the lookup of its cycle found active, however many there are,
\* and none for any other; turbineCount is the number of readings, and each
\* reading was stored exactly once in that cycle.
C7_OneReadingPerActiveTurbine ==
    \A c \in Requests : \A i \in EventTypes(c, "power-output") :
        LET e == EventsOf(c)[i]
        IN  /\ Range(e.powerOutputs) = e.matched
            /\ Len(e.powerOutputs) = Cardinality(e.matched)
            /\ e.turbineCount = Len(e.powerOutputs)
            /\ \A t \in Range(e.powerOutputs) :
                  CopiesIn([windTurbineId |-> t, conn |-> c, cycle |-> e.cycle],
                           PowerOutput) = 1

\* A turbine-id list that is missing, empty, or made of blank entries only.
NoTurbineIds(v) ==
    \/ v.kind = "undefined"
    \/ v.kind = "string" /\ \A i \in 1..Len(v.fields) : v.fields[i][2] = 0

\* Request r was answered with the validation error and left nothing behind.
Rejected(r) ==
    /\ res[r].head = 400
    /\ res[r].body = "Validation Error"
    /\ res[r].ended
    /\ res[r].events = <<>>
    /\ started[r] = 0
    /\ ~timers[r].armed
    /\ r \notin DOMAIN sseConnections
    /\ r \notin listening

\* C8: a subscribe request whose turbine-id list is missing, empty or blank
\* is answered with a validation error and creates no subscription.
C8_BlankListRejected ==
    \A r \in Arrived : NoTurbineIds(query[r].windTurbineIds) => Rejected(r)

\* An interval that is absent (the default applies) or an integer in 1..300.
ValidInterval(v) ==
    \/ v.kind = "undefined"
    \/ /\ v.kind = "numeral" /\ ~v.frac
       /\ v.int >= MinIntervalSeconds /\ v.int <= MaxIntervalSeconds

\* C9: a subscribe request whose interval is not an integer in 1..300 is
\* answered with a validation error and creates no subscription, and every
\* armed timer has a period between 1 and 300 seconds.
C9_IntervalValidated ==
    /\ \A r \in Arrived : ~ValidInterval(query[r].interval) => Rejected(r)
    /\ \A r \in Requests :
          timers[r].armed =>
              /\ timers[r].delay >= MinIntervalSeconds * MsPerSecond
              /\ timers[r].delay <= MaxIntervalSeconds * MsPerSecond

\* An event is active.
Active == weatherEvent # Null

\* C10: at most one weather event is active: an event is active exactly when
\* its remaining-cycle counter is above zero, a new event starts only in a
\* tick that begins with none active, and an active event is carried to the
\* next tick unchanged, with one cycle less, until its counter reaches zero.
C10_OneWeatherEvent ==
    [][/\ Active <=> weatherEventDuration > 0
       /\ Active' <=> weatherEventDuration' > 0
       /\ wxSpawns' > wxSpawns => ~Active
       /\ Active =>
             /\ weatherEventDuration' = weatherEventDuration - 1
             /\ weatherEvent' = IF weatherEventDuration > 1 THEN weatherEvent ELSE Null]_vars

\* C10 witness: a second event is active after the first one ran out.
C10_Witness ==
    /\ Active
    /\ wxSpawns = 2
    /\ weatherEventDuration < weatherEvent.duration

\* C11: while fewer than D calls have been made since an event of duration D
\* started (the starting call included) the event is active; once D calls
\* have been made it is cleared, and the call that follows returns 1.0 unless
\* that call starts a new event.
C11_ClearedAfterDuration ==
    [][wxSpawned # Null =>
          /\ Active <=> wxSince < wxSpawned.duration
          /\ Active => weatherEvent = wxSpawned
          /\ (wxSince = wxSpawned.duration /\ wxTicks' # wxTicks /\ wxSpawns' = wxSpawns)
                => lastFactor' = 10]_vars

\* C11 as stated: the call that follows the D-th call always returns 1.0.
C11_NextTickReturnsOne ==
    [][(wxSpawned # Null /\ wxSince = wxSpawned.duration /\ wxTicks' # wxTicks)
          => (~Active /\ lastFactor' = 10)]_vars

\* C11 witness: a high_pressure event has run its ten calls and the call
\* after them returned 1.0.
C11_Witness ==
    /\ wxSpawned # Null /\ wxSpawned.type = "high_pressure"
    /\ wxSince = wxSpawned.duration + 1
    /\ ~Active
    /\ lastFactor = 10

OutlierRange(type, R) ==
    CASE type = "zero_reading" -> 0..0
      [] type = "extremely_high" -> (200 * R)..(500 * R)
      [] type = "unrealistic_spike" -> (150 * R)..(350 * R)
      [] type = "negative_reading" -> (-(50 * R))..0
      [] type = "minor_negative" -> (-5000)..0

\* C14: an outlier reading names one of the five fault kinds and its powerKW
\* lies in the range of that kind.
C14_OutlierInRangeOfItsKind ==
    (reading # Null /\ reading.reading.outlier) =>
        /\ reading.reading.outlierType \in Range(outlierTypes)
        /\ reading.reading.powerKW
              \in OutlierRange(reading.reading.outlierType, reading.ratedCapacityKW)

\* C14 witness: a negative_reading outlier below zero whose magnitude was
\* rounded (49.5 hundredths of a kW to -0.49 kW).
C14_Witness ==
    /\ reading # Null /\ reading.reading.outlier
    /\ reading.reading.outlierType = "negative_reading"
    /\ reading.ratedCapacityKW = 1
    /\ reading.reading.powerKW = -49

\* The simulator cycles on record, and the sum of a sequence of numbers.
Cycles == DOMAIN simLog
RECURSIVE SeqSum(_)
SeqSum(q) == IF q = <<>> THEN 0 ELSE Head(q) + SeqSum(Tail(q))

\* The weather factors the normal readings of cycle id were made with.
FactorsOf(id) ==
    {simLog[id].factors[b][i] : <<b, i>> \in
        {<<b, i>> \in (1..Len(simLog[id].factors)) \X (1..BATCH_SIZE) :
            i <= Len(simLog[id].factors[b])}} \ {<<>>}

\* C12: in a simulator cycle that generates a normal reading the weather
\* model is advanced exactly once, however many turbines there are, and all
\* normal readings of the cycle are made with the same weather factor.
C12_WeatherTickedOncePerCycle ==
    \A id \in Cycles :
        FactorsOf(id) # {} =>
            /\ SeqSum(simLog[id].calls) = 1
            /\ Cardinality(FactorsOf(id)) = 1

\* C16: every cycle that ended, whatever its outcome, left a timer for the
\* next one, and from every number of cycles begun the next cycle begins.
C16_DriverKeepsCycling ==
    /\ [](\A id \in Cycles : simLog[id].ended => simLog[id].scheduled # <<>>)
    /\ \A n \in 0..(MaxCycles - 1) : (simCycles = n) ~> (simCycles = n + 1)

\* C16 witness: the second cycle has begun after the first one ended, and its
\* fetch failed and left a timer.
C16_Witness ==
    /\ simCycles = 2 /\ 2 \in Cycles
    /\ simLog[2].fetch = "error" /\ simLog[2].ended
    /\ simTimers # EmptyBag

\* A cycle whose fetch or one of whose submits failed.
Failed(id) == simLog[id].fetch = "error" \/ "error" \in Range(simLog[id].sent)

\* C17: a cycle whose fetch or submit failed schedules the next cycle after
\* the 30-second cooldown.
C17_CooldownAfterFailure ==
    \A id \in Cycles :
        (simLog[id].ended /\ Failed(id)) => simLog[id].scheduled = <<RetryDelayMs>>

\* A cycle whose fetch returned an empty list.
EmptyFetch(id) ==
    \/ simLog[id].fetch = "noData"
    \/ simLog[id].fetch = "ok" /\ simLog[id].active = {}

\* C18: a cycle whose fetch returns an empty list ends at once without
\* generating or submitting anything, and creates exactly one timer, of 30
\* seconds.
C18_EmptyFleetRetriesOnce ==
    \A id \in Cycles :
        EmptyFetch(id) =>
            /\ simLog[id].ended
            /\ simLog[id].generated = <<>> /\ simLog[id].sent = <<>>
            /\ simLog[id].scheduled = <<RetryDelayMs>>
            /\ \A r \in runs : r.id # id

\* C18 witness: with a base interval of 10 seconds, a cycle found every turbine
\* inactive and the only pending timer is the 30-second retry.
C18_Witness ==
    /\ STREAMING_INTERVAL = 10
    /\ \E id \in Cycles : simLog[id].fetch = "ok" /\ simLog[id].active = {} /\ simLog[id].ended
    /\ runs = {}
    /\ simTimers = SetToBag({RetryDelayMs})

\* The turbine ids of the readings cycle id generated, batch by batch.
GeneratedIds(id) ==
    [b \in 1..Len(simLog[id].generated) |->
        [i \in 1..Len(simLog[id].generated[b]) |-> simLog[id].generated[b][i].windTurbineId]]

\* C19: a cycle generates exactly one reading for every turbine that was
\* active when the fleet was fetched, whatever their number; every batch but
\* the last has BATCH_SIZE readings and the last at most that; the readings
\* of a batch share one timestamp; a batch is generated only after the
\* submit of the batch before it has settled.
C19_OneReadingPerActiveTurbineInBatches ==
    \A id \in Cycles :
        LET gen == simLog[id].generated
            ids == GeneratedIds(id)
        IN  /\ \A b \in 1..Len(gen) :
                  /\ Len(gen[b]) >= 1 /\ Len(gen[b]) <= BATCH_SIZE
                  /\ b < Len(gen) => Len(gen[b]) = BATCH_SIZE
                  /\ \A i, j \in 1..Len(gen[b]) : gen[b][i].timestamp = gen[b][j].timestamp
            /\ Len(simLog[id].sent) <= Len(gen) /\ Len(gen) <= Len(simLog[id].sent) + 1
            /\ (simLog[id].ended /\ simLog[id].fetch = "ok") =>
                  /\ UNION {Range(ids[b]) : b \in 1..Len(ids)} = simLog[id].active
                  /\ SeqSum([b \in 1..Len(ids) |-> Len(ids[b])]) = Cardinality(simLog[id].active)

\* C20: the process exits only while no submit of generated readings is in
\* flight.
C20_NoExitDuringSubmit ==
    [][(exited' /\ ~exited) => \A r \in runs : r.pc # "sendPowerReadings"]_vars

\* The entries of the request that have a turbine id and a numeric powerKW.
WellFormed ==
    {i \in 1..Len(ingest.readings) :
        /\ ingest.readings[i].kind = "object"
        /\ ~Falsy(ingest.readings[i].windTurbineId)
        /\ ingest.readings[i].powerKW.kind = "number"}

\* C15: the response to a batch whose readings field is an array reports
\* totalReceived as the length of the array and savedCount as the number of
\* readings persisted, which are exactly the well-formed entries; the other
\* entries are skipped and the batch is not rejected.
C15_BatchCountsWellFormedEntries ==
    (ingest.pc = "done" /\ ingest.res.status # 400) =>
        /\ ingest.res.status = 201
        /\ ingest.res.totalReceived = JsNumber(Len(ingest.readings))
        /\ ingest.res.savedCount = JsNumber(Cardinality(WellFormed))
        /\ Range(ingest.saved) = WellFormed
        /\ \A i \in WellFormed : CopiesIn(IngestRow(ingest.readings, i), PowerOutput) = 1
        /\ BagCardinality(PowerOutput) = Cardinality(WellFormed)

\* The (factor, duration) pairs of the three kinds of weather event, the
\* factor in tenths.
EventPairs ==
    { <<"storm", 2, 5>>, <<"high_pressure", 15, 10>>, <<"maintenance_window", 0, 3>> }

\* C21: every weather tick returns the factor of the event in effect during
\* that tick, the tick in which the event ends included (the factor is taken
\* before the counter is decremented), and 1.0 when no event is in effect;
\* an event is one of storm (0.2, 5), high_pressure (1.5, 10) and
\* maintenance_window (0.0, 3); the remaining-cycle counter stays between 0
\* and the duration of the current event.
C21_TickReturnsFactorInEffect ==
    [][wxTicks' # wxTicks =>
          /\ lastFactor' = IF Active THEN weatherEvent.factor
                           ELSE IF wxSpawns' > wxSpawns THEN wxSpawned'.factor
                           ELSE 10
          /\ Active' =>
                <<weatherEvent'.type, weatherEvent'.factor, weatherEvent'.duration>> \in EventPairs
          /\ wxSpawns' > wxSpawns =>
                <<wxSpawned'.type, wxSpawned'.factor, wxSpawned'.duration>> \in EventPairs
          /\ weatherEventDuration' >= 0
          /\ weatherEventDuration' <= IF Active' THEN weatherEvent'.duration ELSE 0]_vars

\* C21 witness: the third tick of a maintenance window ended the event and
\* still returned its factor 0.0.
C21_Witness ==
    /\ wxSpawned # Null /\ wxSpawned.type = "maintenance_window"
    /\ wxSince = wxSpawned.duration
    /\ ~Active
    /\ weatherEventDuration = 0
    /\ lastFactor = 0

\* The time factor the hour of a timestamp selects, in thousandths.
TimeFactorOf(hour) ==
    IF hour >= 22 \/ hour <= 6 THEN 1200
    ELSE IF hour >= 10 /\ hour <= 16 THEN 600
    ELSE 900

\* C22: the time factor of a reading that is not an outlier is selected from
\* the local hour of the reading's timestamp argument and is exactly 1.2 from
\* 22:00 to 06:00, 0.6 from 10:00 to 16:00 and 0.9 otherwise.
C22_TimeFactorFromTimestamp ==
    (reading # Null /\ ~reading.reading.outlier) =>
        reading.timeFactor = TimeFactorOf(reading.reading.timestamp)

\* C23: whether a simulator reading is an outlier depends only on the
\* configured chance and the draw against it: with chance 0 no reading is an
\* outlier, with chance 100 every reading is one, and an outlier is returned
\* without consulting the time factor and without consulting or advancing
\* the weather model.
C23_OutlierDecidedByChance ==
    [][(generated' # generated /\ reading'.generator = "simulator") =>
          /\ reading'.reading.outlier <=>
                (OUTLIER_CHANCE > 0 /\ reading'.draws.u0 < OUTLIER_CHANCE)
          /\ OUTLIER_CHANCE = 0 => ~reading'.reading.outlier
          /\ OUTLIER_CHANCE = 100 => reading'.reading.outlier
          /\ reading'.reading.outlier =>
                /\ reading'.timeFactor = Null
                /\ UNCHANGED weatherVars]_vars

\* C23 witness: with chance 100 the highest draw still made an outlier, after
\* a first outlier, and the weather model was never called.
C23_Witness ==
    /\ OUTLIER_CHANCE = 100
    /\ generated = 2
    /\ reading.generator = "simulator"
    /\ reading.draws.u0 = 99
    /\ reading.reading.outlier
    /\ wxTicks = 0

\* C29: while a maintenance_window is in effect, so that the weather factor
\* is 0, every simulator reading that is not an outlier has powerKW exactly 0,
\* whatever the turbine's capacity, the hour and the random variation.
C29_NoPowerInMaintenanceWindow ==
    [][(generated' # generated /\ reading'.generator = "simulator"
          /\ ~reading'.reading.outlier
          /\ \/ (Active /\ weatherEvent.type = "maintenance_window")
             \/ (wxSpawns' > wxSpawns /\ wxSpawned'.type = "maintenance_window"))
          => (lastFactor' = 0 /\ reading'.reading.powerKW = 0)]_vars

\* C29 witness: a night-time reading of a 2500 kW turbine, made in the second
\* cycle of a maintenance window with the highest variation, is 0 kW.
C29_Witness ==
    /\ reading # Null /\ reading.generator = "simulator"
    /\ ~reading.reading.outlier
    /\ wxSpawned # Null /\ wxSpawned.type = "maintenance_window" /\ wxSince = 2
    /\ reading.ratedCapacityKW = 2500
    /\ reading.draws.hour = 6 /\ reading.draws.q1 = 3 /\ reading.draws.q2 = 3
    /\ reading.reading.powerKW = 0

\* The events of the given type that cycle n of subscription c has in evs.
CycleEvents(evs, n, type) ==
    {i \in 1..Len(evs) : evs[i].type = type /\ evs[i].cycle = n}

\* The number of rows cycle n of subscription c has in the table P.
RowsStored(P, c, n) ==
    LET rows == {x \in BagToSet(P) : x.conn = c /\ x.cycle = n}
        Sum[S \in SUBSET rows] ==
            IF S = {} THEN 0
            ELSE LET x == CHOOSE y \in S : TRUE IN CopiesIn(x, P) + Sum[S \ {x}]
    IN  Sum[rows]

\* C27: every reading of a pushed power-output event was persisted before the
\* push; when persisting a turbine's reading fails the cycle pushes only the
\* error event, the remaining turbines are not generated, and the readings
\* the cycle persisted before stay persisted.
C27_PushedReadingsArePersisted ==
    [][/\ \A c \in Requests : \A i \in 1..Len(EventsOf(c)') :
             LET e == EventsOf(c)'[i]
             IN  e.type = "power-output" =>
                    \A k \in 1..Len(e.powerOutputs) :
                       BagIn([windTurbineId |-> e.powerOutputs[k], conn |-> c, cycle |-> e.cycle],
                             PowerOutput')
       /\ \A row \in BagToSet(PowerOutput) : CopiesIn(row, PowerOutput') >= CopiesIn(row, PowerOutput)
       /\ \A cy \in cycles :
             (cy.pc = "create" /\ faults' > faults /\ cy \notin cycles') =>
                /\ EventsOf(cy.conn)' = Append(EventsOf(cy.conn), [type |-> "error", cycle |-> cy.n])
                /\ PowerOutput' = PowerOutput
                /\ RowsStored(PowerOutput, cy.conn, cy.n) = cy.i - 1
                /\ \A k \in 1..(cy.i - 1) : BagIn(Row(cy, cy.turbines[k]), PowerOutput')
       /\ \A c \in Requests : \A i \in 1..Len(EventsOf(c)) :
             LET e == EventsOf(c)[i]
             IN  e.type = "error" =>
                    /\ CycleEvents(EventsOf(c)', e.cycle, "power-output") = {}
                    /\ RowsStored(PowerOutput', c, e.cycle) = RowsStored(PowerOutput, c, e.cycle)]_vars

\* C27 witness: a cycle over two turbines persisted the first reading, failed
\* on the second and pushed the error event only; the first row is stored.
C27_Witness ==
    \E c \in Requests :
        /\ scope[c] # Null /\ Len(scope[c].turbineFilter) = 2
        /\ CyclesOf(c) = {}
        /\ CycleEvents(EventsOf(c), 1, "error") # {}
        /\ CycleEvents(EventsOf(c), 1, "power-output") = {}
        /\ RowsStored(PowerOutput, c, 1) = 1

\* The invocation r of runSimulation returns in this step.
Returns(r) == \A q \in runs' : q.id # r.id

\* C28: at most one simulator cycle is running or scheduled at any time: an
\* invocation of runSimulation and the pending timers are one in all, a timer
\* is created only by an invocation that returns, which creates exactly one
\* on every path, and only after all of its batches have been processed.
C28_OneCycleRunningOrScheduled ==
    [][/\ Cardinality(runs) + BagCardinality(simTimers) = 1
       /\ Cardinality(runs') + BagCardinality(simTimers') = 1
       /\ \A r \in runs : Returns(r) =>
             /\ BagCardinality(simTimers') = BagCardinality(simTimers) + 1
             /\ Len(simLog'[r.id].scheduled) = 1
             /\ \/ r.pc = "fetchActiveTurbines"
                \/ /\ r.pc = "delay" /\ r.i = Len(r.batches)
                   /\ Len(simLog[r.id].generated) = Len(r.batches)
                   /\ Len(simLog[r.id].sent) = Len(r.batches)
       /\ BagCardinality(simTimers') > BagCardinality(simTimers) =>
             \E r \in runs : Returns(r)
       /\ \A r \in runs : ~Returns(r) => simLog'[r.id].scheduled = <<>>]_vars

\* C28 witness: the second cycle has submitted its batch and returned, and
\* the only thing pending is the timer it created.
C28_Witness ==
    /\ simCycles = 2
    /\ runs = {}
    /\ BagCardinality(simTimers) = 1
    /\ \E id \in DOMAIN simLog :
          /\ id = 2 /\ simLog[id].ended
          /\ Len(simLog[id].sent) = 1
          /\ simLog[id].scheduled = <<STREAMING_INTERVAL * MsPerSecond>>

\* C30: batch ingest is not atomic.  When persisting a valid reading fails
\* the response is a 500 without savedCount, the readings of the batch that
\* were persisted before stay stored and the later readings are not
\* attempted; a missing or non-array readings field is answered 400 and
\* persists nothing.
C30_BatchIngestNotAtomic ==
    [][/\ (ingest.pc = "create" /\ faults' > faults) =>
             /\ ingest'.pc = "done"
             /\ ingest'.res.status = 500
             /\ ingest'.res.savedCount = Null
             /\ ingest'.saved = ingest.saved /\ ingest'.i = ingest.i
             /\ PowerOutput' = PowerOutput
             /\ BagCardinality(PowerOutput') = Len(ingest.saved)
             /\ \A k \in 1..Len(ingest.saved) :
                    CopiesIn(IngestRow(ingest.readings, ingest.saved[k]), PowerOutput') = 1
       /\ ingest.pc = "done" => (ingest' = ingest /\ PowerOutput' = PowerOutput)
       /\ (ingest'.pc = "done" /\ ingest'.res.status = 400) =>
             /\ ingest'.saved = <<>>
             /\ PowerOutput' = EmptyBag
       /\ (ingest.pc = "idle" /\ ingest'.pc # "idle") =>
             /\ PowerOutput' = PowerOutput
             /\ ingest'.res # Null => ingest'.res.status \in {400, 201, 500}]_vars

\* C30 witness: the first reading of a batch was stored, the create of the
\* second failed, and a third valid reading was never attempted.
C30_Witness ==
    /\ ingest.pc = "done" /\ ingest.res.status = 500
    /\ faults = 1
    /\ ingest.saved = <<1>> /\ ingest.i = 2
    /\ 3 \in WellFormed
    /\ BagCardinality(PowerOutput) = 1
    /\ CopiesIn(IngestRow(ingest.readings, 1), PowerOutput) = 1

\* C24: a PATCH that changes the status of a work order to closed sets its
\* resolutionDate and one that changes it from closed to another status
\* clears it, so that a work order created open without a resolutionDate has
\* one, after any PATCH requests, exactly when its status is closed.
C24_ResolutionDateIffClosed ==
    \A id \in DOMAIN WorkOrder :
        WorkOrder[id].resolutionDate # Null <=> WorkOrder[id].status = Closed

\* The scripts that are to leave a database with turbines alone: the start
\* script, and the seeder without --reset and --clear.
PlainRun(script) ==
    \/ script.script = "start"
    \/ script.script = "seedRunner" /\ script.args \cap {"--reset", "--clear"} = {}

\* C26: existing data survives restarts and plain seeder runs: seed data is
\* generated only into a database without turbines, so the start script and
\* the seeder without --reset or --clear leave a database that has turbines
\* as it is, also when the seed-data check fails.
C26_PlainRunsKeepData ==
    [][(scriptRuns' # scriptRuns /\ PlainRun(lastScript') /\ database.turbines > 0)
          => database' = database]_vars

\* The response of a request that arrived and was answered in this step.
AnsweredAtOnce(op, id) ==
    /\ woBegun' # woBegun
    /\ woResponse' # Null
    /\ woResponse'.n = woBegun'
    /\ woResponse'.op = op
    /\ woResponse'.id = id

\* C25: deleting a work order is a soft delete.  Once a DELETE has succeeded
\* the row still exists: GET on its id returns it, PATCH and comment creation
\* accept it, the default list leaves it out and the list with
\* includeDeleted=true has it, and another DELETE of the id is answered 404
\* and changes nothing.
C25_SoftDelete ==
    [][\A id \in DOMAIN WorkOrder :
          WorkOrder[id].deletedAt # Null =>
             /\ id \in DOMAIN WorkOrder'
             /\ WorkOrder'[id].deletedAt = WorkOrder[id].deletedAt
             /\ AnsweredAtOnce("get", id) =>
                   (woResponse'.status = 200 /\ woResponse'.data = WorkOrder[id])
             /\ ~AnsweredAtOnce("patch", id)
             /\ \A q \in woRequests \ woRequests' :
                   (q.op = "patch" /\ q.id = id) =>
                      /\ woResponse'.status \in {200, 400}
                      /\ woResponse'.status = 200 =>
                            /\ WorkOrder'[id] = Update(WorkOrder[id], q.updates)
                            /\ woResponse'.data = WorkOrder'[id]
             /\ AnsweredAtOnce("comment", id) =>
                   /\ woResponse'.status \in {201, 400}
                   /\ woResponse'.status = 201 => WorkOrderComment'[id] = WorkOrderComment[id] + 1
             /\ AnsweredAtOnce("list", Undefined) => id \notin woResponse'.data
             /\ AnsweredAtOnce("list", JsString("true")) => id \in woResponse'.data
             /\ \A q \in woRequests' \ woRequests : ~(q.op = "delete" /\ q.id = id)
             /\ AnsweredAtOnce("delete", id) =>
                   /\ woResponse'.status = 404
                   /\ UNCHANGED <<WorkOrder, WorkOrderComment, woRequests>>]_vars

\* C25 witness: a work order was deleted, then patched to in_progress, and a
\* second DELETE of it was answered 404.
C25_Witness ==
    /\ Len(WorkOrder) = 1
    /\ WorkOrder[1].deletedAt # Null
    /\ WorkOrder[1].status = JsString("in_progress")
    /\ woRequests = {}
    /\ woBegun = 4
    /\ woResponse.n = 4 /\ woResponse.op = "delete"
    /\ woResponse.id = 1 /\ woResponse.status = 404

====
